---- MODULE Spec2Model ----
(***************************************************************************)
(* Model of the CBC RAG engine (src/rag_engine.py): the in-memory vector   *)
(* store with cosine-similarity search, the index build loop, retrieval,   *)
(* generation with source attribution and the domain query synthesizers.   *)
(*                                                                         *)
(* Conventions                                                             *)
(*   - A Python value that may be None is a sequence: <<>> is None and     *)
(*     <<v>> is the value v.                                               *)
(*   - Embedding vectors are sequences of integers whose magnitude is an   *)
(*     integer, so that every cosine similarity is an exact rational       *)
(*     [num, den] and float rounding plays no part in the ranking.         *)
(*   - Lab values are integers in tenths of their unit (hgb 12.0 is 120).  *)
(*   - The embedding and generation providers are the environment: each    *)
(*     call either raises or returns a value drawn from a small set.       *)
(***************************************************************************)
EXTENDS Integers, Sequences, FiniteSets, TLC

VARIABLES
    documents,   \* InMemoryVectorStore.documents
    embeddings,  \* InMemoryVectorStore.embeddings
    ready,       \* CBCRagEngine._ready
    pc,          \* "idle", or "building" while build_index is in its loop
    bi,          \* build_index: number of loop iterations completed
    progress,    \* build_index: the progress_callback invocations so far
    events,      \* build_index: what the current call has done, in order
    builds,      \* outcome of every build_index call made on this engine
    last,        \* the most recent completed call and what it returned
    kwchunks,    \* KeywordRetriever.chunks
    second,      \* a build_index call running on the engine at the same time
    session,     \* the app: st.session_state and the provider configuration
    pending,     \* build_index in store.add: the vector not yet appended
    inflight,    \* a retrieval or generation call waiting for a provider
    shared       \* whether several threads use the engine at the same time

vars == <<documents, embeddings, ready, pc, bi, progress, events, builds, last,
          kwchunks, second, session, pending, inflight, shared>>

(***************************************************************************)
(* Bounds of the model.                                                    *)
(***************************************************************************)
NumChunks == 2      \* chunks in the knowledge base
MaxBuilds == 2      \* build_index calls on one engine
MaxTopK == 3        \* largest top_k passed to retrieve / search
MaxStoreLen == 3    \* entries added to a bare vector store
MaxKwChunks == 3    \* chunks held by a keyword retriever

(***************************************************************************)
(* Python helpers.                                                         *)
(***************************************************************************)
None == <<>>
Some(x) == <<x>>

Min(a, b) == IF a <= b THEN a ELSE b
Max(a, b) == IF a >= b THEN a ELSE b

\* truthiness of an Optional[str]: None and "" are falsy
TruthyStr(s) == s # None /\ s[1] # ""

\* truthiness of an optional number: None and 0 are falsy
TruthyNum(x) == x # None /\ x[1] # 0

RECURSIVE SumSeq(_)
SumSeq(s) == IF s = <<>> THEN 0 ELSE Head(s) + SumSeq(Tail(s))

(***************************************************************************)
(* Python floats are IEEE-754 doubles.  A positive double is [m, e] with   *)
(* 2^52 <= m < 2^53 and value m / 2^e; m is a natural number of any size,  *)
(* written as its digits in base 2^14, lowest first.  Every operation      *)
(* rounds to nearest, ties to the even mantissa.                           *)
(***************************************************************************)
Limb == 2^14

RECURSIVE BigCarry(_, _, _)
BigCarry(a, i, carry) ==
    IF i > Len(a)
    THEN IF carry = 0 THEN <<>>
         ELSE <<carry % Limb>> \o BigCarry(a, i, carry \div Limb)
    ELSE <<(a[i] + carry) % Limb>> \o BigCarry(a, i + 1, (a[i] + carry) \div Limb)

RECURSIVE BigTrim(_)
BigTrim(a) ==
    IF a # <<>> /\ a[Len(a)] = 0 THEN BigTrim(SubSeq(a, 1, Len(a) - 1)) ELSE a

BigMul(a, b) ==
    BigCarry([k \in 1..(Len(a) + Len(b) - 1) |->
                SumSeq([i \in 1..Len(a) |->
                           IF k - i + 1 \in 1..Len(b) THEN a[i] * b[k - i + 1]
                           ELSE 0])], 1, 0)

\* quotient and remainder of a by a small d, from digit i downwards
RECURSIVE BigDivFrom(_, _, _, _)
BigDivFrom(a, i, rem, d) ==
    IF i = 0 THEN [q |-> <<>>, r |-> rem]
    ELSE LET cur == rem * Limb + a[i]
             rest == BigDivFrom(a, i - 1, cur % d, d)
         IN [q |-> Append(rest.q, cur \div d), r |-> rest.r]

BigDivSmall(a, d) == BigDivFrom(a, Len(a), 0, d)

BitLen(a) ==
    LET t == BigTrim(a)
    IN IF t = <<>> THEN 0
       ELSE 14 * (Len(t) - 1)
            + (CHOOSE b \in 1..14 : 2^(b - 1) <= t[Len(t)] /\ t[Len(t)] < 2^b)

\* a shifted right by k bits, and whether a one was shifted out
BigShr(a, k) ==
    LET j == k \div 14
        dv == BigDivSmall(SubSeq(a, j + 1, Len(a)), 2^(k % 14))
    IN [q |-> dv.q,
        nz |-> dv.r # 0 \/ \E i \in 1..Min(j, Len(a)) : a[i] # 0]

\* the double nearest to (q + f) / 2^e, where 0 <= f < 1 and sticky tells
\* whether f > 0; q has more than 53 bits
RoundTo53(q, sticky, e) ==
    LET \* round to nearest, ties to even: t holds 54 bits, the last the half
        Mantissa(t, top) ==
            IF t.q[1] % 2 = 1 /\ (sticky \/ t.nz \/ top[1] % 2 = 1)
            THEN BigCarry([top EXCEPT ![1] = @ + 1], 1, 0)
            ELSE top
        \* a carry out of the 53 bits moves the exponent
        Pack(m, e2) ==
            IF BitLen(m) = 54
            THEN [m |-> BigTrim(BigDivSmall(m, 2).q), e |-> e2 - 1]
            ELSE [m |-> BigTrim(m), e |-> e2]
        Shifted(t, e2) == Pack(Mantissa(t, BigDivSmall(t.q, 2).q), e2)
    IN Shifted(BigShr(q, BitLen(q) - 54), e - (BitLen(q) - 53))

\* the double nearest to n / d, for integers n >= 0 and 0 < d < 2^17: what a
\* decimal literal or a typed-in decimal value is stored as (0.0 has no
\* mantissa digits)
FlRatio(n, d) ==
    LET Rounded(dv) == RoundTo53(dv.q, dv.r # 0, 70)
    IN IF n = 0 THEN [m |-> <<>>, e |-> 0]
       ELSE Rounded(BigDivSmall(<<0, 0, 0, 0, 0>> \o BigCarry(<<n>>, 1, 0), d))

\* a * b and a / d (d a small integer) on doubles
FlMul(a, b) == RoundTo53(BigMul(a.m, b.m), FALSE, a.e + b.e)

FlDivSmall(a, d) ==
    LET dv == BigDivSmall(<<0>> \o a.m, d)
    IN RoundTo53(dv.q, dv.r # 0, a.e + 14)

\* a > b on positive doubles: the smaller exponent of two, or the greater
\* mantissa, decided at the highest digit where the mantissas differ
FlGT(a, b) ==
    \/ a.e < b.e
    \/ /\ a.e = b.e
       /\ \E i \in 1..Len(a.m) :
              /\ a.m[i] > b.m[i]
              /\ \A j \in (i + 1)..Len(a.m) : a.m[j] = b.m[j]

\* math.sqrt(n) for an integer 0 < n < 2^14: the root of n * 2^112 found
\* bit by bit from the top, then rounded to 53 bits; BigLE is a <= b on
\* naturals written in digits
FlSqrt(n) ==
    LET Radicand == <<0, 0, 0, 0, 0, 0, 0, 0, n>>
        WithBit(q, b) == [q EXCEPT ![b \div 14 + 1] = @ + 2^(b % 14)]
        Digit(x, i) == IF i <= Len(x) THEN x[i] ELSE 0
        BigLE(a, b) ==
            ~ \E i \in 1..Max(Len(a), Len(b)) :
                  /\ Digit(a, i) > Digit(b, i)
                  /\ \A j \in (i + 1)..Max(Len(a), Len(b)) :
                         Digit(a, j) = Digit(b, j)
        Fits(c) == BigLE(BigMul(c, c), Radicand)
        RECURSIVE Root(_, _)
        Root(q, b) ==
            IF b < 0 THEN q
            ELSE IF Fits(WithBit(q, b)) THEN Root(WithBit(q, b), b - 1)
            ELSE Root(q, b - 1)
        Rounded(q) == RoundTo53(q, BigTrim(BigMul(q, q)) # BigTrim(Radicand), 56)
    IN Rounded(Root(<<0, 0, 0, 0, 0>>, 62))

\* k / d for an integer 0 < k < 2^14 and a double d >= 1: the quotient of
\* k * 2^112 by the mantissa of d found bit by bit from the top, then
\* rounded to 53 bits
FlDivInt(k, d) ==
    LET Dividend == <<0, 0, 0, 0, 0, 0, 0, 0, k>>
        WithBit(q, b) == [q EXCEPT ![b \div 14 + 1] = @ + 2^(b % 14)]
        Digit(x, i) == IF i <= Len(x) THEN x[i] ELSE 0
        BigLE(a, b) ==
            ~ \E i \in 1..Max(Len(a), Len(b)) :
                  /\ Digit(a, i) > Digit(b, i)
                  /\ \A j \in (i + 1)..Max(Len(a), Len(b)) :
                         Digit(a, j) = Digit(b, j)
        Fits(c) == BigLE(BigMul(c, d.m), Dividend)
        RECURSIVE Quotient(_, _)
        Quotient(q, b) ==
            IF b < 0 THEN q
            ELSE IF Fits(WithBit(q, b)) THEN Quotient(WithBit(q, b), b - 1)
            ELSE Quotient(q, b - 1)
        Rounded(q) ==
            RoundTo53(q, BigTrim(BigMul(q, d.m)) # BigTrim(Dividend), 112 - d.e)
    IN Rounded(Quotient(<<0, 0, 0, 0, 0, 0>>, 74))

\* the integer nearest to a * scale, ties to even, for a double a: what
\* round(a, digits) and format(a, ".3f") make of a, in units of 1 / scale
FlRound(a, scale) ==
    LET Halves(h, nz) ==
            IF h % 2 = 1 /\ (nz \/ (h \div 2) % 2 = 1) THEN h \div 2 + 1
            ELSE h \div 2
        ToInt(b) == SumSeq([i \in 1..Len(b) |-> b[i] * Limb^(i - 1)])
        Shifted(t) == Halves(ToInt(BigTrim(t.q)), t.nz)
    IN Shifted(BigShr(BigMul(a.m, BigCarry(<<scale>>, 1, 0)), a.e - 1))

\* the same for the double computed as num / den from integers.  Unless
\* num * scale / den lies exactly halfway between two integers the double
\* is far too close to num / den to round differently from it (den below
\* 2^17); exactly halfway, the side the double lies on decides.
RoundScaled(num, den, scale) ==
    LET Magnitude(a) ==
            IF 2 * ((a * scale) % den) < den THEN (a * scale) \div den
            ELSE IF 2 * ((a * scale) % den) > den THEN (a * scale) \div den + 1
            ELSE FlRound(FlRatio(a, den), scale)
    IN IF num < 0 THEN -Magnitude(-num) ELSE Magnitude(num)

\* faulty variant: the slice keeps the tail of the list, s[-k:]
PySliceTail(s, k) ==
    IF k >= 0 THEN SubSeq(s, Len(s) - Min(k, Len(s)) + 1, Len(s))
    ELSE SubSeq(s, 1, Max(Len(s) + k, 0))

\* faulty variant: the slice stops one element early, s[:k - 1]
PySliceShort(s, k) ==
    IF k - 1 >= 0 THEN SubSeq(s, 1, Min(k - 1, Len(s)))
    ELSE SubSeq(s, 1, Max(Len(s) + k - 1, 0))

\* s[:k] for any integer k
PySlice(s, k) ==
    IF k >= 0 THEN SubSeq(s, 1, Min(k, Len(s)))
    ELSE SubSeq(s, 1, Max(Len(s) + k, 0))

(***************************************************************************)
(* The knowledge base: load_knowledge_base returns data["chunks"].         *)
(***************************************************************************)
Sections == <<"Anemia", "Platelets">>

Chunks ==
    [i \in 1..NumChunks |->
        [id |-> i,
         section |-> Sections[((i - 1) % Len(Sections)) + 1],
         title |-> <<"title", i>>,
         text |-> <<"text", i>>]]

(***************************************************************************)
(* Vector math.                                                            *)
(***************************************************************************)
\* zip(a, b) stops at the shorter vector
Dot(a, b) == SumSeq([i \in 1..Min(Len(a), Len(b)) |-> a[i] * b[i]])

\* math.sqrt(sum(x * x for x in a)), on a perfect square
Magnitude(a) ==
    LET squares == SumSeq([i \in 1..Len(a) |-> a[i] * a[i]])
    IN CHOOSE r \in 0..squares : r * r = squares

\* faulty variant: no zero-magnitude guard before the division
cosine_similarity_unguarded(a, b) ==
    [num |-> Dot(a, b), den |-> Magnitude(a) * Magnitude(b)]

\* the score as the fraction dot / (mag_a * mag_b); a zero denominator is a
\* division that raises ZeroDivisionError
cosine_similarity(a, b) ==
    LET dot == Dot(a, b)
        mag_a == Magnitude(a)
        mag_b == Magnitude(b)
    IN IF mag_a = 0 \/ mag_b = 0
       THEN [num |-> 0, den |-> 1]
       ELSE [num |-> dot, den |-> mag_a * mag_b]

ScoreGT(s, t) == s.num * t.den > t.num * s.den
ScoreEQ(s, t) == s.num * t.den = t.num * s.den

\* round(score, 4), in ten-thousandths
ScoreScale == 10000
Round4(s) == RoundScaled(s.num, s.den, ScoreScale)

(***************************************************************************)
(* InMemoryVectorStore.                                                    *)
(***************************************************************************)
\* faulty variant: the new entry is inserted at the front of both lists
store_add_front(docs, embs, chunk, embedding) ==
    [documents |-> <<chunk>> \o docs, embeddings |-> <<embedding>> \o embs]

store_add(docs, embs, chunk, embedding) ==
    [documents |-> Append(docs, chunk), embeddings |-> Append(embs, embedding)]

\* the loop of search: (score, idx) of every entry that passes the filter
RECURSIVE ScoredFrom(_, _, _, _, _)
ScoredFrom(docs, embs, query_embedding, section_filter, idx) ==
    IF idx > Len(embs) THEN <<>>
    ELSE IF TruthyStr(section_filter) /\ docs[idx].section # section_filter[1]
         THEN ScoredFrom(docs, embs, query_embedding, section_filter, idx + 1)
         ELSE <<[score |-> cosine_similarity(query_embedding, embs[idx]),
                 idx |-> idx]>>
              \o ScoredFrom(docs, embs, query_embedding, section_filter, idx + 1)

\* faulty variant: ascending sort then reverse(), equal scores end up in
\* reverse order
SortAscThenReverse(scored) ==
    LET n == Len(scored)
        Rank(i) ==
            Cardinality({j \in 1..n : ScoreGT(scored[j].score, scored[i].score)})
            + Cardinality({j \in i..n : ScoreEQ(scored[j].score, scored[i].score)})
    IN [p \in 1..n |-> scored[CHOOSE i \in 1..n : Rank(i) = p]]

\* scored.sort(key=score, reverse=True): stable, equal scores keep their order
SortByScoreDesc(scored) ==
    LET n == Len(scored)
        Rank(i) ==
            Cardinality({j \in 1..n : ScoreGT(scored[j].score, scored[i].score)})
            + Cardinality({j \in 1..i : ScoreEQ(scored[j].score, scored[i].score)})
    IN [p \in 1..n |-> scored[CHOOSE i \in 1..n : Rank(i) = p]]

\* chunk.copy() with chunk["_score"] = round(score, 4)
Annotate(chunk, score) ==
    [id |-> chunk.id, section |-> chunk.section, title |-> chunk.title,
     text |-> chunk.text, score |-> Round4(score)]

\* the sorted (score, idx) pairs that survive scored[:top_k]
TopScored(docs, embs, query_embedding, top_k, section_filter) ==
    PySlice(SortByScoreDesc(
                ScoredFrom(docs, embs, query_embedding, section_filter, 1)),
            top_k)

store_search(docs, embs, query_embedding, top_k, section_filter) ==
    LET top == TopScored(docs, embs, query_embedding, top_k, section_filter)
    IN [i \in 1..Len(top) |-> Annotate(docs[top[i].idx], top[i].score)]

\* faulty variant: the score is written into the stored chunk, no copy taken
store_after_search_in_place(docs, embs, query_embedding, top_k, section_filter) ==
    LET top == TopScored(docs, embs, query_embedding, top_k, section_filter)
    IN [documents |->
           [j \in 1..Len(docs) |->
               IF \E i \in 1..Len(top) : top[i].idx = j
               THEN Annotate(docs[j], cosine_similarity(query_embedding, embs[j]))
               ELSE docs[j]],
        embeddings |-> embs]

\* the store after search: the loop reads self.embeddings and self.documents
\* and annotates self.documents[idx].copy(), assigning to neither list
store_after_search(docs, embs, query_embedding, top_k, section_filter) ==
    [documents |-> docs, embeddings |-> embs]

\* search raises when a similarity it computes divides by zero
SearchDivides(docs, embs, query_embedding, section_filter) ==
    LET scored == ScoredFrom(docs, embs, query_embedding, section_filter, 1)
    IN \E i \in 1..Len(scored) : scored[i].score.den = 0

(***************************************************************************)
(* The providers (environment).  A response is consumed only when the code *)
(* makes the call.                                                         *)
(***************************************************************************)
DocVectors == {<<1, 0>>, <<3, 4>>}
QueryVectors == {<<0, 0>>, <<1, 0>>, <<0, 1>>}
StoreVectors == {<<0, 0>>, <<1, 0>>, <<3, 4>>}

EmbedRaises == [raises |-> TRUE, vec |-> <<>>]
EmbedReturns(V) == {[raises |-> FALSE, vec |-> v] : v \in V}

GenRaises == [raises |-> TRUE, text |-> ""]
GenReturns == {[raises |-> FALSE, text |-> t] : t \in {"answer", ""}}

(***************************************************************************)
(* What a call gives back: how it ended, the value returned (None when it  *)
(* raised), the provider calls it made, and the generate_with_rag request  *)
(* it issued, if any.                                                      *)
(***************************************************************************)
Outcome(outcome, value, e, g, rag) ==
    [outcome |-> outcome, value |-> value, embedCalls |-> e, genCalls |-> g,
     rag |-> rag, trace |-> <<>>]

NoCall == [op |-> "none", args |-> <<>>, outcome |-> "none", value |-> None,
           embedCalls |-> 0, genCalls |-> 0, rag |-> None, trace |-> <<>>]

Called(op, args, r) ==
    [op |-> op, args |-> args, outcome |-> r.outcome, value |-> r.value,
     embedCalls |-> r.embedCalls, genCalls |-> r.genCalls, rag |-> r.rag,
     trace |-> r.trace]

\* the calls retrieve and generate_with_rag make, recorded in order in the
\* trace of the result
EmbedQueryCall == <<"embed", "RETRIEVAL_QUERY">>
SearchCall == <<"search">>
GenerateCall == <<"generate">>

Traced(r, trace) == [r EXCEPT !.trace = trace]

(***************************************************************************)
(* CBCRagEngine.build_index, one loop iteration (or the return) at a time: *)
(* every iteration blocks on one embedding call.                           *)
(***************************************************************************)
\* what one loop iteration for chunk n appends to the record of the call:
\* the embedding request with its task type, the store insertion, the
\* callback
EmbedEvent(n) == <<"embed", n, "RETRIEVAL_DOCUMENT">>
AddEvent(n) == <<"add", n>>
ProgressEvent(n, total) == <<"progress", <<n, total>>>>
ReadyEvent == <<"ready">>

\* faulty variant: the ready flag assigned inside the loop
build_index_step_early(docs, embs, rdy, i, prog, log, resp) ==
    LET total == Len(Chunks)
    IN IF i < total
       THEN IF resp.raises
            THEN [status |-> "raised", documents |-> docs, embeddings |-> embs,
                  ready |-> rdy, i |-> i, progress |-> prog,
                  events |-> Append(log, EmbedEvent(i + 1))]
            ELSE LET s == store_add(docs, embs, Chunks[i + 1], resp.vec)
                 IN [status |-> "loop", documents |-> s.documents,
                     embeddings |-> s.embeddings, ready |-> TRUE, i |-> i + 1,
                     progress |-> Append(prog, <<i + 1, total>>),
                     events |-> log \o <<EmbedEvent(i + 1), AddEvent(i + 1),
                                         ReadyEvent, ProgressEvent(i + 1, total)>>]
       ELSE [status |-> "returned", documents |-> docs, embeddings |-> embs,
             ready |-> TRUE, i |-> i, progress |-> prog,
             events |-> Append(log, ReadyEvent)]

\* faulty variant: the callback invoked with the zero-based loop index
build_index_step_zero_based(docs, embs, rdy, i, prog, log, resp) ==
    LET total == Len(Chunks)
    IN IF i < total
       THEN IF resp.raises
            THEN [status |-> "raised", documents |-> docs, embeddings |-> embs,
                  ready |-> rdy, i |-> i, progress |-> prog,
                  events |-> Append(log, EmbedEvent(i + 1))]
            ELSE LET s == store_add(docs, embs, Chunks[i + 1], resp.vec)
                 IN [status |-> "loop", documents |-> s.documents,
                     embeddings |-> s.embeddings, ready |-> rdy, i |-> i + 1,
                     progress |-> Append(prog, <<i, total>>),
                     events |-> log \o <<EmbedEvent(i + 1), AddEvent(i + 1),
                                         ProgressEvent(i, total)>>]
       ELSE [status |-> "returned", documents |-> docs, embeddings |-> embs,
             ready |-> TRUE, i |-> i, progress |-> prog,
             events |-> Append(log, ReadyEvent)]

build_index_step(docs, embs, rdy, i, prog, log, resp) ==
    LET total == Len(Chunks)
    IN IF i < total
       THEN IF resp.raises
            THEN [status |-> "raised", documents |-> docs, embeddings |-> embs,
                  ready |-> rdy, i |-> i, progress |-> prog,
                  events |-> Append(log, EmbedEvent(i + 1))]
            ELSE LET s == store_add(docs, embs, Chunks[i + 1], resp.vec)
                 IN [status |-> "loop", documents |-> s.documents,
                     embeddings |-> s.embeddings, ready |-> rdy, i |-> i + 1,
                     progress |-> Append(prog, <<i + 1, total>>),
                     events |-> log \o <<EmbedEvent(i + 1), AddEvent(i + 1),
                                         ProgressEvent(i + 1, total)>>]
       ELSE [status |-> "returned", documents |-> docs, embeddings |-> embs,
             ready |-> TRUE, i |-> i, progress |-> prog,
             events |-> Append(log, ReadyEvent)]

(***************************************************************************)
(* CBCRagEngine.retrieve.                                                  *)
(***************************************************************************)
\* faulty variant: no check of the ready flag
retrieve_unguarded(rdy, docs, embs, query, top_k, section_filter, resp) ==
    IF resp.raises
    THEN Traced(Outcome("EmbedError", None, 1, 0, None), <<EmbedQueryCall>>)
    ELSE Traced(Outcome("ok",
                        store_search(docs, embs, resp.vec, top_k, section_filter),
                        1, 0, None),
                <<EmbedQueryCall, SearchCall>>)

\* faulty variant: the query embedded with embed(), in document mode
retrieve_document_mode(rdy, docs, embs, query, top_k, section_filter, resp) ==
    IF ~rdy
    THEN Outcome("IndexNotBuilt", None, 0, 0, None)
    ELSE IF resp.raises
         THEN Traced(Outcome("EmbedError", None, 1, 0, None),
                     <<<<"embed", "RETRIEVAL_DOCUMENT">>>>)
         ELSE Traced(Outcome("ok",
                             store_search(docs, embs, resp.vec, top_k,
                                          section_filter),
                             1, 0, None),
                     <<<<"embed", "RETRIEVAL_DOCUMENT">>, SearchCall>>)

retrieve(rdy, docs, embs, query, top_k, section_filter, resp) ==
    IF ~rdy
    THEN Outcome("IndexNotBuilt", None, 0, 0, None)
    ELSE IF resp.raises
         THEN Traced(Outcome("EmbedError", None, 1, 0, None), <<EmbedQueryCall>>)
         ELSE Traced(Outcome("ok",
                             store_search(docs, embs, resp.vec, top_k,
                                          section_filter),
                             1, 0, None),
                     <<EmbedQueryCall, SearchCall>>)

(***************************************************************************)
(* CBCRagEngine.format_context and generate_with_rag.                      *)
(***************************************************************************)
\* relevance is the score printed with three decimals, in thousandths
format_context(chunks) ==
    [i \in 1..Len(chunks) |->
        [source |-> i, section |-> chunks[i].section, title |-> chunks[i].title,
         relevance |-> RoundScaled(chunks[i].score, ScoreScale, 1000),
         text |-> chunks[i].text]]

PreviewLen == 120

\* faulty variant: sources numbered from 0
SourcesFromZero(retrieved) ==
    [i \in 1..Len(retrieved) |->
        [index |-> i - 1,
         title |-> retrieved[i].title,
         section |-> retrieved[i].section,
         score |-> retrieved[i].score,
         preview |-> <<retrieved[i].text, PreviewLen, "...">>]]

\* step 4 of generate_with_rag: the source attribution list
Sources(retrieved) ==
    [i \in 1..Len(retrieved) |->
        [index |-> i,
         title |-> retrieved[i].title,
         section |-> retrieved[i].section,
         score |-> retrieved[i].score,
         preview |-> <<retrieved[i].text, PreviewLen, "...">>]]

\* faulty variant: a failed generation call is swallowed and a stock answer
\* returned
generate_with_rag_fallback(rdy, docs, embs, query, top_k, additional_context, eresp, gresp) ==
    LET request == Some([query |-> query, top_k |-> top_k,
                         additional_context |-> additional_context])
        r == retrieve(rdy, docs, embs, query, top_k, None, eresp)
    IN IF r.outcome # "ok"
       THEN Traced(Outcome(r.outcome, None, r.embedCalls, 0, request), r.trace)
       ELSE Traced(Outcome("ok",
                           Some([answer |-> IF gresp.raises THEN "unavailable"
                                            ELSE gresp.text,
                                 sources |-> Sources(r.value),
                                 retrieved_chunks |-> r.value,
                                 query |-> query]),
                           r.embedCalls, 1, request),
                   Append(r.trace, GenerateCall))

\* steps 2 to 4 of generate_with_rag, r being what retrieve came back with:
\* an exception of retrieve propagates, otherwise the prompt is built around
\* format_context(retrieved) and sent
generate_from(r, query, additional_context, request, gresp) ==
    IF r.outcome # "ok"
    THEN Traced(Outcome(r.outcome, None, r.embedCalls, 0, request), r.trace)
    ELSE LET retrieved == r.value
             prompt == [context |-> format_context(retrieved),
                        additional_context |-> additional_context,
                        query |-> query]
             trace == Append(r.trace, GenerateCall)
         IN IF gresp.raises
            THEN Traced(Outcome("GenerationError", None, r.embedCalls, 1,
                                request),
                        trace)
            ELSE Traced(Outcome("ok",
                                Some([answer |-> gresp.text,
                                      sources |-> Sources(retrieved),
                                      retrieved_chunks |-> retrieved,
                                      query |-> query]),
                                r.embedCalls, 1, request),
                        trace)

generate_with_rag(rdy, docs, embs, query, top_k, additional_context, eresp, gresp) ==
    generate_from(retrieve(rdy, docs, embs, query, top_k, None, eresp), query,
                  additional_context,
                  Some([query |-> query, top_k |-> top_k,
                        additional_context |-> additional_context]),
                  gresp)

(***************************************************************************)
(* The domain query synthesizers.  cbc_values is a record of optional lab  *)
(* values in tenths; cbc_values.get(k) is the field k.                     *)
(***************************************************************************)
\* {k: v for k, v in cbc_values.items() if v}
TruthyItems(cbc) ==
    [k \in {f \in DOMAIN cbc : TruthyNum(cbc[f])} |-> cbc[k][1]]

\* {k: v for k, v in cbc_values.items() if v is not None and v > 0}
EnteredItems(cbc) ==
    [k \in {f \in DOMAIN cbc : cbc[f] # None /\ cbc[f][1] > 0} |-> cbc[k][1]]

NoFinding == Outcome("ok", None, 0, 0, None)

\* faulty variant: the lower bound itself counts as anemia
analyze_anemia_strict(rdy, docs, embs, cbc, sex, eresp, gresp) ==
    LET hgb == cbc.hgb
        hgb_lo == IF sex = "M" THEN 135 ELSE 120
    IN IF hgb = None \/ hgb[1] > hgb_lo
       THEN NoFinding
       ELSE generate_with_rag(rdy, docs, embs,
                [ask |-> "anemia", sex |-> sex, hgb |-> hgb, mcv |-> cbc.mcv],
                5, [cbc |-> TruthyItems(cbc)], eresp, gresp)

analyze_anemia(rdy, docs, embs, cbc, sex, eresp, gresp) ==
    LET hgb == cbc.hgb
        hgb_lo == IF sex = "M" THEN 135 ELSE 120
    IN IF hgb = None \/ hgb[1] >= hgb_lo
       THEN NoFinding
       ELSE generate_with_rag(rdy, docs, embs,
                [ask |-> "anemia", sex |-> sex, hgb |-> hgb, mcv |-> cbc.mcv],
                5, [cbc |-> TruthyItems(cbc)], eresp, gresp)

\* wbc * neut_pct / 100 on doubles, each operation rounded
AncDerived(cbc) ==
    FlDivSmall(FlMul(FlRatio(cbc.wbc[1], 10), FlRatio(cbc.neut_pct[1], 10)), 100)

\* anc = neut_abs, or wbc * neut_pct / 100: a double, or None
Anc(cbc) ==
    IF cbc.neut_abs # None THEN Some(FlRatio(cbc.neut_abs[1], 10))
    ELSE IF TruthyNum(cbc.wbc) /\ TruthyNum(cbc.neut_pct)
         THEN Some(AncDerived(cbc))
         ELSE None

\* anc > bound and anc < bound as Python evaluates them, bound in tenths.
\* A value typed in and the literal bound are the doubles nearest to them,
\* which compare as the decimals do.  The derived anc can differ from the
\* exact quotient only in its last bits, so it compares with the bound as the
\* exact quotient does unless that equals the bound, when the rounding decides.

AncGT(cbc, bound) ==
    IF cbc.neut_abs # None THEN cbc.neut_abs[1] > bound
    ELSE IF cbc.wbc[1] * cbc.neut_pct[1] # bound * 1000
         THEN cbc.wbc[1] * cbc.neut_pct[1] > bound * 1000
         ELSE FlGT(AncDerived(cbc), FlRatio(bound, 10))

AncLT(cbc, bound) ==
    IF cbc.neut_abs # None THEN cbc.neut_abs[1] < bound
    ELSE IF cbc.wbc[1] * cbc.neut_pct[1] # bound * 1000
         THEN cbc.wbc[1] * cbc.neut_pct[1] < bound * 1000
         ELSE FlGT(FlRatio(bound, 10), AncDerived(cbc))

\* ANC={anc:.2f} of the query text, in hundredths.  A value typed in with one
\* decimal prints as itself; the derived double prints as the exact quotient
\* rounds unless that lies halfway between two hundredths, when the double
\* decides (ties to even when it is the halfway value itself).
AncPrinted(cbc) ==
    IF cbc.neut_abs # None THEN 10 * cbc.neut_abs[1]
    ELSE IF (cbc.wbc[1] * cbc.neut_pct[1]) % 100 # 50
         THEN (cbc.wbc[1] * cbc.neut_pct[1] + 50) \div 100
         ELSE FlRound(AncDerived(cbc), 100)

analyze_neutrophil_abnormality(rdy, docs, embs, cbc, eresp, gresp) ==
    IF Anc(cbc) = None THEN NoFinding
    ELSE IF AncGT(cbc, 77)
         THEN generate_with_rag(rdy, docs, embs,
                  [ask |-> "neutrophilia", wbc |-> cbc.wbc,
                   anc |-> AncPrinted(cbc)],
                  4, [condition |-> "neutrophilia", cbc |-> TruthyItems(cbc)],
                  eresp, gresp)
    ELSE IF AncLT(cbc, 18)
         THEN generate_with_rag(rdy, docs, embs,
                  [ask |-> "neutropenia", wbc |-> cbc.wbc,
                   anc |-> AncPrinted(cbc)],
                  4, [condition |-> "neutropenia", cbc |-> TruthyItems(cbc)],
                  eresp, gresp)
    ELSE NoFinding

\* faulty variant: the lower bound itself counts as thrombocytopenia
analyze_platelet_abnormality_inclusive(rdy, docs, embs, cbc, eresp, gresp) ==
    LET plt == cbc.plt
    IN IF plt = None THEN NoFinding
       ELSE IF plt[1] <= 1500
            THEN generate_with_rag(rdy, docs, embs,
                     [ask |-> "thrombocytopenia", plt |-> plt[1]],
                     4, [cbc |-> TruthyItems(cbc)], eresp, gresp)
       ELSE IF plt[1] > 4000
            THEN generate_with_rag(rdy, docs, embs,
                     [ask |-> "thrombocytosis", plt |-> plt[1]],
                     4, [cbc |-> TruthyItems(cbc)], eresp, gresp)
       ELSE NoFinding

analyze_platelet_abnormality(rdy, docs, embs, cbc, eresp, gresp) ==
    LET plt == cbc.plt
    IN IF plt = None THEN NoFinding
       ELSE IF plt[1] < 1500
            THEN generate_with_rag(rdy, docs, embs,
                     [ask |-> "thrombocytopenia", plt |-> plt[1]],
                     4, [cbc |-> TruthyItems(cbc)], eresp, gresp)
       ELSE IF plt[1] > 4000
            THEN generate_with_rag(rdy, docs, embs,
                     [ask |-> "thrombocytosis", plt |-> plt[1]],
                     4, [cbc |-> TruthyItems(cbc)], eresp, gresp)
       ELSE NoFinding

\* alc = lymph_abs, or wbc * lymph_pct / 100: a double, or None; the query
\* text prints it in full
Alc(cbc) ==
    IF cbc.lymph_abs # None THEN Some(FlRatio(cbc.lymph_abs[1], 10))
    ELSE IF TruthyNum(cbc.wbc) /\ TruthyNum(cbc.lymph_pct)
         THEN Some(FlDivSmall(FlMul(FlRatio(cbc.wbc[1], 10),
                                    FlRatio(cbc.lymph_pct[1], 10)), 100))
         ELSE None

analyze_immunodeficiency_risk(rdy, docs, embs, cbc, sex, age, eresp, gresp) ==
    generate_with_rag(rdy, docs, embs,
        [ask |-> "immunodeficiency", sex |-> sex, age |-> age, alc |-> Alc(cbc),
         anc |-> cbc.neut_abs, plt |-> cbc.plt],
        4, [sex |-> sex, age |-> age, cbc |-> TruthyItems(cbc)], eresp, gresp)

\* analyze_sample_quality_rag always asks, with top_k = 3
analyze_sample_quality_rag(rdy, docs, embs, cbc, eresp, gresp) ==
    generate_with_rag(rdy, docs, embs,
        [ask |-> "sample_quality", hgb |-> cbc.hgb, wbc |-> cbc.wbc,
         plt |-> cbc.plt],
        3, "Sample quality assessment request.", eresp, gresp)

\* one "if v and v < lo" / "if v and v > hi" pair of full_rag_analysis
Flag(v, lo, lowName, hi, highName) ==
    (IF TruthyNum(v) /\ v[1] < lo THEN <<[finding |-> lowName, value |-> v[1]]>>
     ELSE <<>>)
    \o (IF TruthyNum(v) /\ v[1] > hi THEN <<[finding |-> highName, value |-> v[1]]>>
        ELSE <<>>)

Abnormals(cbc, sex) ==
    LET hgb_lo == IF sex = "M" THEN 135 ELSE 120
        hgb_hi == IF sex = "M" THEN 175 ELSE 155
    IN Flag(cbc.hgb, hgb_lo, "Anemia", hgb_hi, "Erythrocytosis")
       \o (IF TruthyNum(cbc.wbc) /\ cbc.wbc[1] > 110
           THEN <<[finding |-> "Leukocytosis", value |-> cbc.wbc[1]]>> ELSE <<>>)
       \o (IF TruthyNum(cbc.wbc) /\ cbc.wbc[1] < 45
           THEN <<[finding |-> "Leukopenia", value |-> cbc.wbc[1]]>> ELSE <<>>)
       \o (IF TruthyNum(cbc.neut_abs) /\ cbc.neut_abs[1] > 77
           THEN <<[finding |-> "Neutrophilia", value |-> cbc.neut_abs[1]]>>
           ELSE <<>>)
       \o (IF TruthyNum(cbc.neut_abs) /\ cbc.neut_abs[1] < 18
           THEN <<[finding |-> "Neutropenia", value |-> cbc.neut_abs[1]]>>
           ELSE <<>>)
       \o Flag(cbc.plt, 1500, "Thrombocytopenia", 4000, "Thrombocytosis")
       \o Flag(cbc.lymph_abs, 10, "Lymphopenia", 48, "Lymphocytosis")
       \o Flag(cbc.mcv, 800, "Microcytosis", 1000, "Macrocytosis")

\* faulty variant: no query when the abnormality list is empty
full_rag_analysis_gated(rdy, docs, embs, cbc, sex, age, eresp, gresp) ==
    LET abnormals == Abnormals(cbc, sex)
    IN IF abnormals = <<>> THEN NoFinding
       ELSE generate_with_rag(rdy, docs, embs,
                [ask |-> "full", age |-> age,
                 sex |-> IF sex = "M" THEN "male" ELSE "female",
                 abnormalities |-> <<"joined", abnormals>>,
                 cbc |-> EnteredItems(cbc)],
                6, [sex |-> sex, age |-> age, abnormalities |-> abnormals],
                eresp, gresp)

full_rag_analysis(rdy, docs, embs, cbc, sex, age, eresp, gresp) ==
    LET abnormals == Abnormals(cbc, sex)
    IN generate_with_rag(rdy, docs, embs,
           [ask |-> "full", age |-> age,
            sex |-> IF sex = "M" THEN "male" ELSE "female",
            abnormalities |-> IF abnormals # <<>> THEN <<"joined", abnormals>>
                              ELSE <<"None identified", <<>>>>,
            cbc |-> EnteredItems(cbc)],
           6, [sex |-> sex, age |-> age, abnormalities |-> abnormals],
           eresp, gresp)

(***************************************************************************)
(* KeywordRetriever.  A string is a sequence of one-character strings.     *)
(***************************************************************************)
\* str.lower(), character by character
LowerStr(s) ==
    LET Lower(c) == CASE c = "A" -> "a"
                      [] c = "B" -> "b"
                      [] c = "C" -> "c"
                      [] OTHER -> c
    IN [i \in 1..Len(s) |-> Lower(s[i])]

\* set(re.findall(r"\b\w+\b", s)): the maximal runs of the characters that
\* \w matches, all others separate words; cur is the run being read
RECURSIVE Words(_, _)
Words(s, cur) ==
    LET done == IF cur = <<>> THEN {} ELSE {cur}
        WordChars == {"a", "b", "c", "A", "B", "C", "1", "_"}
    IN IF s = <<>> THEN done
       ELSE IF Head(s) \in WordChars
            THEN Words(Tail(s), Append(cur, Head(s)))
            ELSE done \cup Words(Tail(s), <<>>)

Tokens(s) == Words(s, <<>>)

\* sep.join(strs)
RECURSIVE Join(_, _)
Join(strs, sep) ==
    IF strs = <<>> THEN <<>>
    ELSE IF Len(strs) = 1 THEN strs[1]
    ELSE strs[1] \o sep \o Join(Tail(strs), sep)

\* the text _score tokenises: text, title and keywords, each lowercased
ChunkText(chunk) ==
    LowerStr(chunk.text) \o <<" ">> \o LowerStr(chunk.title) \o <<" ">>
        \o LowerStr(Join(chunk.keywords, <<" ">>))

\* chunks a keyword retriever may hold: vocabularies {a, b}, {c}, {},
\* {ab, a, b, c} and one of 18 words
KwChunkPool ==
    {[id |-> 1, section |-> "Anemia", title |-> <<"A">>,
      text |-> <<"a", " ", "b">>, keywords |-> <<>>],
     [id |-> 2, section |-> "Platelets", title |-> <<>>,
      text |-> <<"c">>, keywords |-> << <<"C">> >>],
     [id |-> 3, section |-> "Anemia", title |-> <<"-">>,
      text |-> <<>>, keywords |-> <<>>],
     [id |-> 4, section |-> "Platelets", title |-> <<"B", "-", "c">>,
      text |-> <<"a", "b">>, keywords |-> << <<"a">>, <<"a", "-", "A">> >>],
     [id |-> 5, section |-> "Anemia", title |-> <<"A", "a">>,
      text |-> <<"a", " ", "b", " ", "c", " ", "1", " ", "_">>,
      keywords |-> << <<"a", "b">>, <<"a", "c">>, <<"a", "1">>,
                      <<"b", "a">>, <<"b", "b">>, <<"b", "c">>, <<"b", "1">>,
                      <<"c", "a">>, <<"c", "b">>, <<"c", "c">>, <<"c", "1">>,
                      <<"1", "1">> >>]}

KwQueries ==
    {<<>>, <<"A">>, <<"a", " ", "B">>, <<"c", "-", "b">>, <<"a", "b">>,
     <<"a", " ", "c", " ", "1">>}

\* len(overlap) / math.sqrt(len(chunk_tokens)) as the double the two
\* operations give, for the vocabulary sizes of KwChunkPool and the overlaps
\* the queries of KwQueries can have, computed once
KwQuotients ==
    LET sizes == {Cardinality(Tokens(ChunkText(c))) : c \in KwChunkPool} \ {0}
        overlaps == {Cardinality(Tokens(LowerStr(q))) : q \in KwQueries} \ {0}
    IN {<<k, n, FlDivInt(k, FlSqrt(n))>> : k \in overlaps, n \in sizes}

\* faulty variant: counts the query tokens that the chunk lacks
KeywordRetriever_score_missing(chunk, query_tokens) ==
    LET chunk_tokens == Tokens(ChunkText(chunk))
        overlap == Cardinality(query_tokens \ chunk_tokens)
        size == Cardinality(chunk_tokens)
    IN IF chunk_tokens = {} \/ overlap = 0 THEN [m |-> <<>>, e |-> 0]
       ELSE IF \E row \in KwQuotients : row[1] = overlap /\ row[2] = size
            THEN (CHOOSE row \in KwQuotients :
                      row[1] = overlap /\ row[2] = size)[3]
            ELSE FlDivInt(overlap, FlSqrt(size))

\* KeywordRetriever._score: 0.0 for an empty vocabulary (and for 0 divided
\* by the root), else the double of the quotient
KeywordRetriever_score(chunk, query_tokens) ==
    LET chunk_tokens == Tokens(ChunkText(chunk))
        overlap == Cardinality(query_tokens \cap chunk_tokens)
        size == Cardinality(chunk_tokens)
    IN IF chunk_tokens = {} \/ overlap = 0 THEN [m |-> <<>>, e |-> 0]
       ELSE IF \E row \in KwQuotients : row[1] = overlap /\ row[2] = size
            THEN (CHOOSE row \in KwQuotients :
                      row[1] = overlap /\ row[2] = size)[3]
            ELSE FlDivInt(overlap, FlSqrt(size))

\* s > t on doubles that are 0.0 or positive
KwScoreGT(s, t) == s.m # <<>> /\ (t.m = <<>> \/ FlGT(s, t))

\* round(score, 4) in ten-thousandths
KwRound4(s) == IF s.m = <<>> THEN 0 ELSE FlRound(s, ScoreScale)

\* scored.sort(key=score, reverse=True) on keyword scores: stable, entries
\* of the same double keep their order
KwSortByScoreDesc(scored) ==
    LET n == Len(scored)
        Rank(i) ==
            Cardinality({j \in 1..n : KwScoreGT(scored[j].score, scored[i].score)})
            + Cardinality({j \in 1..i : scored[j].score = scored[i].score})
    IN [p \in 1..n |-> scored[CHOOSE i \in 1..n : Rank(i) = p]]

\* faulty variant: chunks that score 0 are dropped before the cut
KwTopScoredPositive(chunks, query, top_k) ==
    LET query_tokens == Tokens(LowerStr(query))
        scored == [i \in 1..Len(chunks) |->
                     [score |-> KeywordRetriever_score(chunks[i], query_tokens),
                      idx |-> i]]
        Positive(e) == e.score.m # <<>>
    IN PySlice(SelectSeq(KwSortByScoreDesc(scored), Positive), top_k)

\* the sorted (score, idx) pairs that survive scored[:top_k]
KwTopScored(chunks, query, top_k) ==
    LET query_tokens == Tokens(LowerStr(query))
        scored == [i \in 1..Len(chunks) |->
                     [score |-> KeywordRetriever_score(chunks[i], query_tokens),
                      idx |-> i]]
    IN PySlice(KwSortByScoreDesc(scored), top_k)

\* chunk.copy() with c["_score"] = round(score, 4) and c["_method"] = "keyword"
KwAnnotate(chunk, score) ==
    [id |-> chunk.id, section |-> chunk.section, title |-> chunk.title,
     text |-> chunk.text, keywords |-> chunk.keywords,
     score |-> KwRound4(score), method |-> "keyword"]

\* self.chunks after search: only chunk.copy() is annotated
KwChunksAfterSearch(chunks, query, top_k) == chunks

KeywordRetriever_search(chunks, query, top_k) ==
    LET top == KwTopScored(chunks, query, top_k)
    IN [i \in 1..Len(top) |-> KwAnnotate(chunks[top[i].idx], top[i].score)]

\* how a search call ends: search reads self.chunks and the query, reaches
\* no embedding or generation client and has no raise of its own
KeywordRetriever_search_outcome(chunks, query, top_k) ==
    Outcome("ok", KeywordRetriever_search(chunks, query, top_k), 0, 0, None)

(***************************************************************************)
(* Inputs.                                                                 *)
(***************************************************************************)
RECURSIVE SeqsUpTo(_, _)
SeqsUpTo(S, n) ==
    IF n = 0 THEN {<<>>}
    ELSE LET shorter == SeqsUpTo(S, n - 1)
         IN shorter \cup {Append(q, x) : q \in shorter, x \in S}

Queries == {"microcytic anemia low ferritin"}
TopKs == -1..MaxTopK
SectionFilters == {None, Some(""), Some("Anemia"), Some("Platelets")}

Sexes == {"M", "F", "O"}
Ages == {35}

NoCbc == [hgb |-> None, mcv |-> None, wbc |-> None, neut_abs |-> None,
          neut_pct |-> None, plt |-> None, lymph_abs |-> None,
          lymph_pct |-> None]

Opt(S) == {None} \cup {Some(v) : v \in S}

\* hemoglobin and MCV; white cells and neutrophils; platelets; lymphocytes
CbcCases ==
    {[NoCbc EXCEPT !.hgb = h, !.mcv = m] :
        h \in Opt({0, 110, 120, 130, 135, 160, 180}), m \in Opt({0, 700, 800, 1100})}
    \cup
    {[NoCbc EXCEPT !.wbc = w, !.neut_abs = a, !.neut_pct = p] :
        w \in Opt({0, 30, 88, 110, 150}), a \in Opt({0, 10, 18, 77, 90}),
        p \in Opt({100, 700, 875})}
    \cup
    {[NoCbc EXCEPT !.plt = v] : v \in Opt({0, 1000, 1500, 2500, 4000, 4500})}
    \cup
    {[NoCbc EXCEPT !.lymph_abs = l, !.wbc = w, !.lymph_pct = p] :
        l \in Opt({0, 5, 10, 48, 60}), w \in Opt({70}), p \in Opt({300})}

AnalysisVectors == {<<1, 0>>}
GenResponses == {GenRaises} \cup GenReturns

\* API keys typed into the sidebar: KeyA and KeyB differ only after their
\* eighth character, KeyC differs from both within the first eight, and the
\* field may be left empty
KeyA == <<"A", "I", "z", "a", "-", "0", "0", "1", "a">>
KeyB == <<"A", "I", "z", "a", "-", "0", "0", "1", "b">>
KeyC == <<"A", "I", "z", "a", "-", "0", "0", "2", "c">>
ApiKeys == {<<>>, KeyA, KeyB, KeyC}

\* the values of the page when a button is clicked: none, or one abnormal
\* or normal value; an uploaded report may give a 0
AppCbcCases ==
    {NoCbc,
     [NoCbc EXCEPT !.hgb = Some(110)],
     [NoCbc EXCEPT !.hgb = Some(160)],
     [NoCbc EXCEPT !.hgb = Some(180)],
     [NoCbc EXCEPT !.neut_abs = Some(10)],
     [NoCbc EXCEPT !.neut_abs = Some(0), !.wbc = Some(110),
                   !.neut_pct = Some(875)],
     [NoCbc EXCEPT !.plt = Some(1000)],
     [NoCbc EXCEPT !.lymph_abs = Some(5)],
     [NoCbc EXCEPT !.wbc = Some(30), !.lymph_pct = Some(300)]}

\* st.session_state of a new session: no engine cached, no flag set
NoSession == [rag |-> [p \in {} |-> <<>>], indexed |-> {}, configured |-> None,
              kw_retriever |-> None]

\* no second build_index call has been made
NoSecond == [pc |-> "idle", i |-> 0, progress |-> <<>>, events |-> <<>>,
             pending |-> None]

\* no call is waiting for a provider.  A waiting call holds its arguments
\* and, once the search has run, the store the search read and the query
\* embedding it used.
NoInflight == [op |-> "none", args |-> <<>>, stage |-> "none",
               documents |-> <<>>, embeddings |-> <<>>, eresp |-> EmbedRaises]

(***************************************************************************)
(* The state after CBCRagEngine.__init__.                                  *)
(***************************************************************************)
Init ==
    /\ documents = <<>>
    /\ embeddings = <<>>
    /\ ready = FALSE
    /\ pc = "idle"
    /\ bi = 0
    /\ progress = <<>>
    /\ events = <<>>
    /\ builds = <<>>
    /\ last = NoCall
    /\ kwchunks = <<>>
    /\ second = NoSecond
    /\ session = NoSession
    /\ pending = None
    /\ inflight = NoInflight
    /\ shared = FALSE

(***************************************************************************)
(* build_index.  One pass of its loop waits for the embedding, then        *)
(* store.add appends the chunk to documents and the vector to embeddings   *)
(* (two statements), then the callback runs.  Between the two appends the  *)
(* store holds one more chunk than vectors (pc = "adding").                *)
(***************************************************************************)
BuildIndexBegin ==
    /\ pc = "idle"
    /\ last = NoCall
    /\ shared \/ inflight = NoInflight
    /\ Len(builds) < MaxBuilds
    /\ pc' = "building"
    /\ bi' = 0
    /\ progress' = <<>>
    /\ events' = <<>>
    /\ last' = NoCall
    /\ UNCHANGED <<documents, embeddings, ready, builds, kwchunks, second,
                   session, pending, inflight, shared>>

\* the call ends: it raised out of the embedding request, or the loop is over
BuildStepTo(s) ==
    /\ documents' = s.documents
    /\ embeddings' = s.embeddings
    /\ ready' = s.ready
    /\ bi' = s.i
    /\ progress' = s.progress
    /\ events' = s.events
    /\ pc' = "idle"
    /\ builds' = IF s.status = "raised" THEN Append(builds, "aborted")
                 ELSE Append(builds, "ok")
    /\ last' = IF s.status = "raised"
               THEN Called("build_index", <<>>,
                           Outcome("EmbedError", None, 0, 0, None))
               ELSE Called("build_index", <<>>,
                           Outcome("ok", Some(Len(Chunks)), 0, 0, None))
    /\ UNCHANGED <<kwchunks, second, session, pending, inflight, shared>>

\* the embedding arrives and documents.append runs
BuildIndexAddDocument ==
    /\ pc = "building"
    /\ bi < Len(Chunks)
    /\ \E resp \in EmbedReturns(DocVectors) :
          /\ documents' = build_index_step(documents, embeddings, ready, bi,
                                           progress, events, resp).documents
          /\ pending' = Some(resp.vec)
    /\ pc' = "adding"
    /\ UNCHANGED <<embeddings, ready, bi, progress, events, builds, last,
                   kwchunks, second, session, inflight, shared>>

\* embeddings.append runs, then the callback; the pass is over
BuildIndexAddEmbedding ==
    /\ pc = "adding"
    /\ LET s == build_index_step(documents, embeddings, ready, bi, progress,
                                 events, [raises |-> FALSE, vec |-> pending[1]])
       IN /\ embeddings' = s.embeddings
          /\ ready' = s.ready
          /\ bi' = s.i
          /\ progress' = s.progress
          /\ events' = s.events
    /\ pending' = None
    /\ pc' = "building"
    /\ UNCHANGED <<documents, builds, last, kwchunks, second, session, inflight,
                   shared>>

BuildIndexRaise ==
    /\ pc = "building"
    /\ bi < Len(Chunks)
    /\ BuildStepTo(build_index_step(documents, embeddings, ready, bi,
                                    progress, events, EmbedRaises))

BuildIndexReturn ==
    /\ pc = "building"
    /\ bi >= Len(Chunks)
    /\ BuildStepTo(build_index_step(documents, embeddings, ready, bi,
                                    progress, events, EmbedRaises))

(***************************************************************************)
(* retrieve, generate_with_rag and the domain query synthesizers.  A call  *)
(* returns at once when it makes no request (index not built, no finding). *)
(* Otherwise it waits for the query embedding, and the search runs on the  *)
(* store as it is when the embedding arrives; generate_with_rag then waits *)
(* for the generation.  The app calls from its one script thread, between  *)
(* builds; when the engine is shared, another thread's build_index passes  *)
(* run while a call waits.                                                 *)
(***************************************************************************)
Apply(op, args, rdy, docs, embs, eresp, gresp) ==
    CASE op = "retrieve" ->
            retrieve(rdy, docs, embs, args.query, args.top_k,
                     args.section_filter, eresp)
      [] op = "generate_with_rag" ->
            generate_with_rag(rdy, docs, embs, args.query, args.top_k,
                              IF "additional_context" \in DOMAIN args
                              THEN args.additional_context ELSE "",
                              eresp, gresp)
      [] op = "analyze_anemia" ->
            analyze_anemia(rdy, docs, embs, args.cbc, args.sex, eresp, gresp)
      [] op = "analyze_neutrophil_abnormality" ->
            analyze_neutrophil_abnormality(rdy, docs, embs, args.cbc, eresp,
                                           gresp)
      [] op = "analyze_platelet_abnormality" ->
            analyze_platelet_abnormality(rdy, docs, embs, args.cbc, eresp, gresp)
      [] op = "analyze_immunodeficiency_risk" ->
            analyze_immunodeficiency_risk(rdy, docs, embs, args.cbc, args.sex,
                                          args.age, eresp, gresp)
      [] op = "analyze_sample_quality_rag" ->
            analyze_sample_quality_rag(rdy, docs, embs, args.cbc, eresp, gresp)
      [] op = "full_rag_analysis" ->
            full_rag_analysis(rdy, docs, embs, args.cbc, args.sex, args.age,
                              eresp, gresp)

\* what the embedding provider may answer to the query of a call
EmbedResponsesOf(op) ==
    IF op \in {"retrieve", "generate_with_rag"}
    THEN {EmbedRaises} \cup EmbedReturns(QueryVectors)
    ELSE {EmbedRaises} \cup EmbedReturns(AnalysisVectors)

\* the call is made: it returns or raises before any request, or it sends
\* the embedding request and waits
CallBegin(op, args) ==
    /\ last = NoCall
    /\ inflight = NoInflight
    /\ shared \/ pc = "idle"
    /\ LET Begun(r) ==
               IF r.embedCalls = 0
               THEN /\ last' = Called(op, args, r)
                    /\ inflight' = inflight
               ELSE /\ last' = last
                    /\ inflight' = [NoInflight EXCEPT !.op = op, !.args = args,
                                                      !.stage = "embedding"]
       IN Begun(Apply(op, args, ready, documents, embeddings, EmbedRaises,
                      GenRaises))
    /\ UNCHANGED <<documents, embeddings, ready, pc, bi, progress, events,
                   builds, kwchunks, second, session, pending, shared>>

\* the embedding request of the waiting call is answered: the call raises,
\* or the search runs; retrieve returns, generate_with_rag sends the prompt
EmbedAnswered ==
    /\ inflight.stage = "embedding"
    /\ \E eresp \in EmbedResponsesOf(inflight.op) :
          LET Answered(r) ==
                  IF r.genCalls = 0
                  THEN /\ last' = Called(inflight.op, inflight.args, r)
                       /\ inflight' = NoInflight
                  ELSE /\ last' = last
                       /\ inflight' = [inflight EXCEPT !.stage = "generating",
                                                       !.documents = documents,
                                                       !.embeddings = embeddings,
                                                       !.eresp = eresp]
          IN Answered(Apply(inflight.op, inflight.args, ready, documents,
                            embeddings, eresp, GenRaises))
    /\ UNCHANGED <<documents, embeddings, ready, pc, bi, progress, events,
                   builds, kwchunks, second, session, pending, shared>>

\* the generation request of the waiting call is answered
GenerateAnswered ==
    /\ inflight.stage = "generating"
    /\ \E gresp \in GenResponses :
          last' = Called(inflight.op, inflight.args,
                         Apply(inflight.op, inflight.args, ready,
                               inflight.documents, inflight.embeddings,
                               inflight.eresp, gresp))
    /\ inflight' = NoInflight
    /\ UNCHANGED <<documents, embeddings, ready, pc, bi, progress, events,
                   builds, kwchunks, second, session, pending, shared>>

Retrieve ==
    \E query \in Queries, top_k \in TopKs, sf \in SectionFilters :
        CallBegin("retrieve",
                  [query |-> query, top_k |-> top_k, section_filter |-> sf])

GenerateWithRag ==
    \E query \in Queries, top_k \in TopKs :
        CallBegin("generate_with_rag", [query |-> query, top_k |-> top_k])

\* the same two calls made by a thread of its own while another thread
\* builds or rebuilds the index
ThreadRetrieve ==
    \E query \in Queries :
        CallBegin("retrieve",
                  [query |-> query, top_k |-> MaxTopK, section_filter |-> None])

ThreadGenerateWithRag ==
    \E query \in Queries :
        CallBegin("generate_with_rag", [query |-> query, top_k |-> MaxTopK])

(***************************************************************************)
(* InMemoryVectorStore used on its own: add and search.                    *)
(***************************************************************************)
StoreAdd ==
    /\ pc = "idle"
    /\ last = NoCall
    /\ Len(documents) < MaxStoreLen
    /\ \E i \in 1..Len(Chunks), v \in StoreVectors :
          LET s == store_add(documents, embeddings, Chunks[i], v)
          IN /\ documents' = s.documents
             /\ embeddings' = s.embeddings
    /\ UNCHANGED <<ready, pc, bi, progress, events, builds, last, kwchunks, second,
                 session, pending,
                 inflight, shared>>

\* add called with whatever vector the caller passes: vectors as two
\* different providers would return them, add takes any list
StoreAddAny ==
    /\ pc = "idle"
    /\ last = NoCall
    /\ Len(documents) < MaxStoreLen
    /\ \E i \in 1..Len(Chunks), v \in StoreVectors \cup {<<1>>} :
          LET s == store_add(documents, embeddings, Chunks[i], v)
          IN /\ documents' = s.documents
             /\ embeddings' = s.embeddings
    /\ UNCHANGED <<ready, pc, bi, progress, events, builds, last, kwchunks, second,
                 session, pending,
                 inflight, shared>>

StoreSearch ==
    /\ pc = "idle"
    /\ last = NoCall
    /\ \E q \in QueryVectors, top_k \in TopKs, sf \in SectionFilters :
          IF SearchDivides(documents, embeddings, q, sf)
          THEN /\ last' = Called("search",
                                 [query_embedding |-> q, top_k |-> top_k,
                                  section_filter |-> sf],
                                 Outcome("ZeroDivisionError", None, 0, 0, None))
               /\ UNCHANGED <<documents, embeddings>>
          ELSE LET after == store_after_search(documents, embeddings, q, top_k, sf)
               IN /\ last' = Called("search",
                                    [query_embedding |-> q, top_k |-> top_k,
                                     section_filter |-> sf],
                                    Outcome("ok",
                                            store_search(documents, embeddings, q,
                                                         top_k, sf),
                                            0, 0, None))
                  /\ documents' = after.documents
                  /\ embeddings' = after.embeddings
    /\ UNCHANGED <<ready, pc, bi, progress, events, builds, kwchunks, second,
                 session, pending,
                 inflight, shared>>

(***************************************************************************)
(* The app starts a build only while the flag set by a build that returned *)
(* is absent: "Build Knowledge Index" is offered again after a build that  *)
(* raised, and runs on the same cached engine.                             *)
(***************************************************************************)
BuildIndexFirst ==
    /\ \A b \in 1..Len(builds) : builds[b] # "ok"
    \* bound of the model: the store stays within MaxStoreLen entries
    /\ Len(documents) + Len(Chunks) <= MaxStoreLen
    /\ BuildIndexBegin

AnalyzeAnemia ==
    \E cbc \in CbcCases, sex \in Sexes :
        CallBegin("analyze_anemia", [cbc |-> cbc, sex |-> sex])

AnalyzeNeutrophilAbnormality ==
    \E cbc \in CbcCases :
        CallBegin("analyze_neutrophil_abnormality", [cbc |-> cbc])

AnalyzePlateletAbnormality ==
    \E cbc \in CbcCases :
        CallBegin("analyze_platelet_abnormality", [cbc |-> cbc])

AnalyzeImmunodeficiencyRisk ==
    \E cbc \in CbcCases, sex \in Sexes, age \in Ages :
        CallBegin("analyze_immunodeficiency_risk",
                  [cbc |-> cbc, sex |-> sex, age |-> age])

\* the method asks whatever the values are: a few panels with and without
\* the values its query names
AnalyzeSampleQualityRag ==
    \E h \in Opt({120}), w \in Opt({70}), v \in Opt({0, 1500}) :
        CallBegin("analyze_sample_quality_rag",
                  [cbc |-> [NoCbc EXCEPT !.hgb = h, !.wbc = w, !.plt = v]])

FullRagAnalysis ==
    \E cbc \in CbcCases, sex \in Sexes, age \in Ages :
        CallBegin("full_rag_analysis", [cbc |-> cbc, sex |-> sex, age |-> age])

(***************************************************************************)
(* KeywordRetriever: constructed over a chunk list, then searched.         *)
(***************************************************************************)
InitKeyword ==
    /\ documents = <<>>
    /\ embeddings = <<>>
    /\ ready = FALSE
    /\ pc = "idle"
    /\ bi = 0
    /\ progress = <<>>
    /\ events = <<>>
    /\ builds = <<>>
    /\ last = NoCall
    /\ kwchunks \in SeqsUpTo(KwChunkPool, MaxKwChunks)
    /\ second = NoSecond
    /\ session = NoSession
    /\ pending = None
    /\ inflight = NoInflight
    /\ shared = FALSE

KeywordSearch ==
    /\ pc = "idle"
    /\ last = NoCall
    /\ \E query \in KwQueries, top_k \in TopKs :
          /\ last' = Called("keyword_search", [query |-> query, top_k |-> top_k],
                            KeywordRetriever_search_outcome(kwchunks, query, top_k))
          /\ kwchunks' = KwChunksAfterSearch(kwchunks, query, top_k)
    /\ UNCHANGED <<documents, embeddings, ready, pc, bi, progress, events,
                   builds, second, session, pending,
                 inflight, shared>>

\* a caller that holds the result of a search makes the same call again, on
\* the store or the retriever as that search left it, and keeps both results
SearchRepeated ==
    /\ pc = "idle"
    /\ last.op \in {"search", "keyword_search"}
    /\ last.outcome = "ok"
    /\ IF last.op = "search"
       THEN LET a == last.args
                after == store_after_search(documents, embeddings,
                                            a.query_embedding, a.top_k,
                                            a.section_filter)
            IN /\ last' = Called("search_repeated", a,
                                 Outcome("ok",
                                         <<last.value,
                                           store_search(documents, embeddings,
                                                        a.query_embedding,
                                                        a.top_k,
                                                        a.section_filter)>>,
                                         0, 0, None))
               /\ documents' = after.documents
               /\ embeddings' = after.embeddings
               /\ kwchunks' = kwchunks
       ELSE LET a == last.args
            IN /\ last' = Called("keyword_search_repeated", a,
                                 Outcome("ok",
                                         <<last.value,
                                           KeywordRetriever_search(kwchunks,
                                                                   a.query,
                                                                   a.top_k)>>,
                                         0, 0, None))
               /\ kwchunks' = KwChunksAfterSearch(kwchunks, a.query, a.top_k)
               /\ UNCHANGED <<documents, embeddings>>
    /\ UNCHANGED <<ready, pc, bi, progress, events, builds, second, session,
                   pending, inflight, shared>>

(***************************************************************************)
(* The caller (the app script) handles what a call returned or raised      *)
(* before it makes the next call: a result is rendered, an error shown.    *)
(***************************************************************************)
ResultHandled ==
    /\ last # NoCall
    /\ last' = NoCall
    /\ UNCHANGED <<documents, embeddings, ready, pc, bi, progress, events,
                   builds, kwchunks, second, session, pending, inflight, shared>>

(***************************************************************************)
(* The app (src/app.py).  st.session_state holds the engines under         *)
(* "rag_" + api_key[:8] (session.rag, by prefix), the flags                *)
(* "indexed_" + api_key[:8] (session.indexed, the prefixes whose flag is   *)
(* set) and the keyword retriever (session.kw_retriever).  An engine keeps *)
(* no key: every request goes out under the key last passed to             *)
(* genai.configure, which is global (session.configured).  The script runs *)
(* on one thread; while a handler waits for a provider, inflight holds the *)
(* call and the key typed into the sidebar.                                *)
(***************************************************************************)
\* api_key[:8]
CacheKey(api_key) == PySlice(api_key, 8)


\* get_rag_engine: the session after the call; the engine returned is
\* session.rag[CacheKey(api_key)].  Only a cache miss constructs an engine
\* (an empty store, _ready False), and the constructor configures genai with
\* the key
get_rag_engine(sess, api_key) ==
    LET ck == CacheKey(api_key)
        new_engine == [documents |-> <<>>, embeddings |-> <<>>, ready |-> FALSE]
    IN IF ck \notin DOMAIN sess.rag
       THEN [sess EXCEPT !.rag = [x \in DOMAIN sess.rag \cup {ck} |->
                                     IF x = ck THEN new_engine
                                     ELSE sess.rag[x]],
                         !.configured = Some(api_key)]
       ELSE sess

\* get_keyword_retriever: the session after the call; a miss caches the
\* chunks create_keyword_retriever loads from the knowledge base
get_keyword_retriever(sess) ==
    LET knowledge_base == [i \in 1..Cardinality(KwChunkPool) |->
                              CHOOSE c \in KwChunkPool : c.id = i]
    IN IF sess.kw_retriever = None
       THEN [sess EXCEPT !.kw_retriever = Some(knowledge_base)]
       ELSE sess

\* faulty variant: only the flag is removed, the engine stays cached
app_rebuild_index_flag_only(sess, api_key) ==
    [sess EXCEPT !.indexed = sess.indexed \ {CacheKey(api_key)}]

\* "Rebuild Index": the session after the click
app_rebuild_index(sess, api_key) ==
    [sess EXCEPT !.indexed = sess.indexed \ {CacheKey(api_key)},
                 !.rag = [ck \in DOMAIN sess.rag \ {CacheKey(api_key)} |->
                             sess.rag[ck]]]

\* "Build Knowledge Index" is clicked: offered with a key, a RAG mode and no
\* flag; get_rag_engine, then build_index enters its loop
AppBuildIndexBegin ==
    /\ pc = "idle"
    /\ last = NoCall
    /\ inflight = NoInflight
    /\ \E api_key \in ApiKeys, rag_mode \in {"built_in", "rag_full", "rag_targeted"} :
          LET ck == CacheKey(api_key)
          IN /\ api_key # <<>>
             /\ rag_mode # "built_in"
             /\ ck \notin session.indexed
             \* bound of the model: a store stays within MaxStoreLen entries
             /\ (IF ck \in DOMAIN session.rag
                 THEN Len(session.rag[ck].documents) ELSE 0) + Len(Chunks)
                   <= MaxStoreLen
             /\ session' = get_rag_engine(session, api_key)
             /\ inflight' = [NoInflight EXCEPT !.op = "app_build_index",
                                               !.args = [api_key |-> api_key],
                                               !.stage = "building"]
    /\ pc' = "building"
    /\ bi' = 0
    /\ progress' = <<>>
    /\ events' = <<>>
    /\ UNCHANGED <<documents, embeddings, ready, builds, last, kwchunks, second,
                   pending, shared>>

\* one pass of the loop of build_index on the cached engine: the chunk is
\* embedded and added, progress_cb runs
AppBuildIndexPass ==
    /\ pc = "building"
    /\ inflight.op = "app_build_index"
    /\ bi < Len(Chunks)
    /\ \E resp \in EmbedReturns(AnalysisVectors) :
          LET engine == session.rag[CacheKey(inflight.args.api_key)]
              s == build_index_step(engine.documents, engine.embeddings,
                                    engine.ready, bi, progress, events, resp)
          IN /\ session' = [session EXCEPT
                                !.rag[CacheKey(inflight.args.api_key)] =
                                    [documents |-> s.documents,
                                     embeddings |-> s.embeddings,
                                     ready |-> s.ready]]
             /\ bi' = s.i
             /\ progress' = s.progress
             /\ events' = s.events
    /\ UNCHANGED <<documents, embeddings, ready, pc, builds, last, kwchunks,
                   second, pending, inflight, shared>>

\* the embedding request of a pass raises: build_index is left, the handler
\* shows the error; the engine stays cached as it is and no flag is set
AppBuildIndexRaise ==
    /\ pc = "building"
    /\ inflight.op = "app_build_index"
    /\ bi < Len(Chunks)
    /\ LET engine == session.rag[CacheKey(inflight.args.api_key)]
           s == build_index_step(engine.documents, engine.embeddings,
                                 engine.ready, bi, progress, events,
                                 EmbedRaises)
       IN /\ session' = [session EXCEPT
                             !.rag[CacheKey(inflight.args.api_key)] =
                                 [documents |-> s.documents,
                                  embeddings |-> s.embeddings,
                                  ready |-> s.ready]]
          /\ bi' = s.i
          /\ progress' = s.progress
          /\ events' = s.events
    /\ last' = Called("app_build_index", inflight.args,
                      Outcome("EmbedError", None, 0, 0, None))
    /\ pc' = "idle"
    /\ inflight' = NoInflight
    /\ UNCHANGED <<documents, embeddings, ready, builds, kwchunks, second,
                   pending, shared>>

\* the loop is over: build_index sets _ready and returns, then the handler
\* sets the flag
AppBuildIndexReturn ==
    /\ pc = "building"
    /\ inflight.op = "app_build_index"
    /\ bi >= Len(Chunks)
    /\ LET api_key == inflight.args.api_key
           engine == session.rag[CacheKey(api_key)]
           s == build_index_step(engine.documents, engine.embeddings,
                                 engine.ready, bi, progress, events,
                                 EmbedRaises)
       IN /\ session' = [session EXCEPT
                             !.rag[CacheKey(api_key)] =
                                 [documents |-> s.documents,
                                  embeddings |-> s.embeddings,
                                  ready |-> s.ready],
                             !.indexed = @ \cup {CacheKey(api_key)}]
          /\ events' = s.events
    /\ last' = Called("app_build_index", inflight.args,
                      Outcome("ok", Some(Len(Chunks)), 0, 0, None))
    /\ pc' = "idle"
    /\ inflight' = NoInflight
    /\ UNCHANGED <<documents, embeddings, ready, bi, progress, builds,
                   kwchunks, second, pending, shared>>

\* "Rebuild Index" is clicked: offered with a key, a RAG mode and the flag
AppRebuildIndex ==
    /\ pc = "idle"
    /\ last = NoCall
    /\ inflight = NoInflight
    /\ \E api_key \in ApiKeys, rag_mode \in {"built_in", "rag_full", "rag_targeted"} :
          /\ api_key # <<>>
          /\ rag_mode # "built_in"
          /\ CacheKey(api_key) \in session.indexed
          /\ session' = app_rebuild_index(session, api_key)
          /\ last' = Called("app_rebuild_index", [api_key |-> api_key],
                            Outcome("ok", None, 0, 0, None))
    /\ UNCHANGED <<documents, embeddings, ready, pc, bi, progress, events,
                   builds, kwchunks, second, pending, inflight, shared>>

\* a file is uploaded while a key is typed in: extract_cbc_with_gemini
\* configures genai with the key and sends the image
AppExtractCbcBegin ==
    /\ pc = "idle"
    /\ last = NoCall
    /\ inflight = NoInflight
    /\ \E api_key \in ApiKeys :
          /\ api_key # <<>>
          /\ session' = [session EXCEPT !.configured = Some(api_key)]
          /\ inflight' = [NoInflight EXCEPT !.op = "extract_cbc_with_gemini",
                                            !.args = [api_key |-> api_key],
                                            !.stage = "extracting"]
    /\ UNCHANGED <<documents, embeddings, ready, pc, bi, progress, events,
                   builds, last, kwchunks, second, pending, shared>>

\* generate_content answers: it raises, which the upload tab shows as an
\* error, or the JSON object found in its text is returned, {} when there is
\* none
AppExtractCbcAnswered ==
    /\ inflight.stage = "extracting"
    /\ \E gresp \in {[raises |-> TRUE, json |-> <<>>],
                     [raises |-> FALSE, json |-> <<>>],
                     [raises |-> FALSE, json |-> <<"hgb", 110>>]} :
          last' = Called(inflight.op, inflight.args,
                         IF gresp.raises
                         THEN Outcome("ExtractionError", None, 0, 1, None)
                         ELSE Outcome("ok", Some(gresp.json), 0, 1, None))
    /\ inflight' = NoInflight
    /\ UNCHANGED <<documents, embeddings, ready, pc, bi, progress, events,
                   builds, kwchunks, second, session, pending, shared>>

\* a section of the page that calls the engine is reached: no handler is
\* running, a key is typed in, the mode chosen is one of modes and the flag
\* read under the prefix of the key is set
AppReaches(api_key, modes) ==
    /\ pc = "idle"
    /\ last = NoCall
    /\ inflight = NoInflight
    /\ api_key # <<>>
    /\ \E rag_mode \in {"built_in", "rag_full", "rag_targeted"} : rag_mode \in modes
    /\ CacheKey(api_key) \in session.indexed

\* the section takes the engine from get_rag_engine and makes the call,
\* which returns or raises before any request or waits for the embedding;
\* args holds the arguments and the key typed in
AppCall(op, args) ==
    /\ LET got == get_rag_engine(session, args.api_key)
           engine == got.rag[CacheKey(args.api_key)]
           Begun(r) ==
               IF r.embedCalls = 0
               THEN /\ last' = Called(op, args, r)
                    /\ inflight' = inflight
               ELSE /\ last' = last
                    /\ inflight' = [NoInflight EXCEPT !.op = op, !.args = args,
                                                      !.stage = "embedding"]
       IN /\ session' = got
          /\ Begun(Apply(op, args, engine.ready, engine.documents,
                         engine.embeddings, EmbedRaises, GenRaises))
    /\ UNCHANGED <<documents, embeddings, ready, pc, bi, progress, events,
                   builds, kwchunks, second, pending, shared>>

\* the embedding request of the waiting call is answered
AppEmbedAnswered ==
    /\ inflight.stage = "embedding"
    /\ \E eresp \in EmbedResponsesOf(inflight.op) :
          LET engine == session.rag[CacheKey(inflight.args.api_key)]
              Answered(r) ==
                  IF r.genCalls = 0
                  THEN /\ last' = Called(inflight.op, inflight.args, r)
                       /\ inflight' = NoInflight
                  ELSE /\ last' = last
                       /\ inflight' = [inflight EXCEPT
                                          !.stage = "generating",
                                          !.documents = engine.documents,
                                          !.embeddings = engine.embeddings,
                                          !.eresp = eresp]
          IN Answered(Apply(inflight.op, inflight.args, engine.ready,
                            engine.documents, engine.embeddings, eresp,
                            GenRaises))
    /\ UNCHANGED <<documents, embeddings, ready, pc, bi, progress, events,
                   builds, kwchunks, second, session, pending, shared>>

\* the generation request of the waiting call is answered
AppGenerateAnswered ==
    /\ inflight.stage = "generating"
    /\ \E gresp \in GenResponses :
          last' = Called(inflight.op, inflight.args,
                         Apply(inflight.op, inflight.args,
                               session.rag[CacheKey(inflight.args.api_key)].ready,
                               inflight.documents, inflight.embeddings,
                               inflight.eresp, gresp))
    /\ inflight' = NoInflight
    /\ UNCHANGED <<documents, embeddings, ready, pc, bi, progress, events,
                   builds, kwchunks, second, session, pending, shared>>

\* "Ask" is clicked with a question, a key and a RAG mode: without the flag
\* a warning, with it generate_with_rag with top_k = 4 and the entered
\* values as additional context
AppAsk ==
    \E api_key \in ApiKeys :
        \/ /\ AppReaches(api_key, {"rag_full", "rag_targeted"})
           /\ \E query \in Queries, data \in AppCbcCases :
                 AppCall("generate_with_rag",
                         [api_key |-> api_key, query |-> query, top_k |-> 4,
                          additional_context |->
                              IF DOMAIN EnteredItems(data) # {}
                              THEN <<"CBC context: ", EnteredItems(data)>>
                              ELSE ""])
        \/ /\ pc = "idle"
           /\ last = NoCall
           /\ inflight = NoInflight
           /\ api_key # <<>>
           /\ \E rag_mode \in {"built_in", "rag_full", "rag_targeted"} : rag_mode # "built_in"
           /\ CacheKey(api_key) \notin session.indexed
           /\ last' = Called("app_ask", [api_key |-> api_key],
                             Outcome("NoIndexWarning", None, 0, 0, None))
           /\ UNCHANGED <<documents, embeddings, ready, pc, bi, progress,
                          events, builds, kwchunks, second, session, pending,
                          inflight, shared>>

\* "Run Complete CBC Analysis" is clicked with values entered; each tab that
\* finds its flag and its abnormality calls the engine.  The anemia tab:
\* hgb below 13.5 (M) or 12.0
AppAnalyzeAnemia ==
    \E api_key \in ApiKeys :
        /\ AppReaches(api_key, {"rag_full", "rag_targeted"})
        /\ \E data \in AppCbcCases, sex \in {"M", "F"} :
              /\ DOMAIN EnteredItems(data) # {}
              /\ TruthyNum(data.hgb)
              /\ data.hgb[1] < (IF sex = "M" THEN 135 ELSE 120)
              /\ AppCall("analyze_anemia",
                         [api_key |-> api_key, cbc |-> data, sex |-> sex])

\* the neutrophil tab: anc = neut_abs or wbc * neut_pct / 100, above 7.7 or
\* below 1.8
AppAnalyzeNeutrophil ==
    \E api_key \in ApiKeys :
        /\ AppReaches(api_key, {"rag_full", "rag_targeted"})
        /\ \E data \in AppCbcCases :
              LET seen == IF TruthyNum(data.neut_abs) THEN data
                          ELSE [data EXCEPT !.neut_abs = None]
              IN /\ DOMAIN EnteredItems(data) # {}
                 /\ Anc(seen) # None
                 /\ AncGT(seen, 77) \/ AncLT(seen, 18)
                 /\ AppCall("analyze_neutrophil_abnormality",
                            [api_key |-> api_key, cbc |-> data])

\* the platelet tab: plt below 150 or above 400
AppAnalyzePlatelet ==
    \E api_key \in ApiKeys :
        /\ AppReaches(api_key, {"rag_full", "rag_targeted"})
        /\ \E data \in AppCbcCases :
              /\ DOMAIN EnteredItems(data) # {}
              /\ TruthyNum(data.plt)
              /\ data.plt[1] < 1500 \/ data.plt[1] > 4000
              /\ AppCall("analyze_platelet_abnormality",
                         [api_key |-> api_key, cbc |-> data])

\* the immunodeficiency tab, reached with pid_flags not empty: lymph =
\* lymph_abs or wbc * lymph_pct / 100 below 1.0, neut_abs below 0.5; the
\* third flag needs an MPV, which the panels of the model leave empty
AppAnalyzeImmunodeficiency ==
    \E api_key \in ApiKeys :
        /\ AppReaches(api_key, {"rag_full", "rag_targeted"})
        /\ \E data \in AppCbcCases, sex \in {"M", "F"}, age \in Ages :
              LET derived == TruthyNum(data.wbc) /\ TruthyNum(data.lymph_pct)
                  product == data.wbc[1] * data.lymph_pct[1]
                  low == IF TruthyNum(data.lymph_abs)
                         THEN data.lymph_abs[1] < 10
                         ELSE /\ derived
                              /\ IF product # 10000 THEN product < 10000
                                 ELSE FlGT(FlRatio(10, 10),
                                           Alc([data EXCEPT
                                                   !.lymph_abs = None])[1])
                  pid_flags ==
                      (IF low THEN {"Lymphopenia"} ELSE {})
                      \cup (IF TruthyNum(data.neut_abs) /\ data.neut_abs[1] < 5
                            THEN {"Severe neutropenia"} ELSE {})
              IN
              /\ DOMAIN EnteredItems(data) # {}
              /\ pid_flags # {}
              /\ AppCall("analyze_immunodeficiency_risk",
                         [api_key |-> api_key, cbc |-> data, sex |-> sex,
                          age |-> age])

\* the polycythemia tab: hgb above 17.5 (M) or 15.5; generate_with_rag with
\* top_k = 3 and sex and entered values as additional context
AppAnalyzePolycythemia ==
    \E api_key \in ApiKeys :
        /\ AppReaches(api_key, {"rag_full", "rag_targeted"})
        /\ \E data \in AppCbcCases, sex \in {"M", "F"} :
              /\ DOMAIN EnteredItems(data) # {}
              /\ TruthyNum(data.hgb)
              /\ data.hgb[1] > (IF sex = "M" THEN 175 ELSE 155)
              /\ AppCall("generate_with_rag",
                         [api_key |-> api_key,
                          query |-> [ask |-> "erythrocytosis",
                                     hgb |-> data.hgb[1], sex |-> sex],
                          top_k |-> 3,
                          additional_context |->
                              [sex |-> sex, cbc |-> EnteredItems(data)]])

\* the full analysis, in mode "rag_full": reached by "Run Complete CBC
\* Analysis" with values entered, and by "Ask" with an empty question with or
\* without values, so data may hold nothing
AppFullAnalysis ==
    \E api_key \in ApiKeys :
        /\ AppReaches(api_key, {"rag_full"})
        /\ \E data \in AppCbcCases, sex \in {"M", "F"}, age \in Ages :
              /\ AppCall("full_rag_analysis",
                         [api_key |-> api_key, cbc |-> data, sex |-> sex,
                          age |-> age])

\* the keyword section, in mode "built_in" with values entered and
\* abnormal_params not empty: the cached retriever is searched with
\* top_k = 3; the query joins the phrases of the abnormal values and is drawn
\* from KwQueries here
AppKeywordSearch ==
    /\ pc = "idle"
    /\ last = NoCall
    /\ inflight = NoInflight
    /\ \E rag_mode \in {"built_in", "rag_full", "rag_targeted"},
          data \in AppCbcCases, sex \in {"M", "F"} :
          /\ rag_mode = "built_in"
          /\ DOMAIN EnteredItems(data) # {}
          /\ \/ TruthyNum(data.hgb)
                /\ data.hgb[1] < (IF sex = "M" THEN 135 ELSE 120)
             \/ TruthyNum(data.mcv)
                /\ (data.mcv[1] < 800 \/ data.mcv[1] > 1000)
             \/ TruthyNum(data.neut_abs)
                /\ (data.neut_abs[1] > 77 \/ data.neut_abs[1] < 18)
             \/ TruthyNum(data.plt) /\ data.plt[1] < 1500
             \/ TruthyNum(data.lymph_abs) /\ data.lymph_abs[1] < 10
    /\ \E query \in KwQueries :
          LET got == get_keyword_retriever(session)
              retriever == got.kw_retriever[1]
          IN /\ query # <<>>
             /\ session' = [got EXCEPT !.kw_retriever =
                                Some(KwChunksAfterSearch(retriever, query, 3))]
             /\ last' = Called("keyword_search",
                               [query |-> query, top_k |-> 3],
                               KeywordRetriever_search_outcome(retriever,
                                                               query, 3))
    /\ UNCHANGED <<documents, embeddings, ready, pc, bi, progress, events,
                   builds, kwchunks, second, pending, inflight, shared>>

(***************************************************************************)
(* Two build_index calls on one engine at the same time (two threads).     *)
(* build_index takes no lock and tests no flag on entry, so the second     *)
(* call runs the same loop on the same store, and the statements of the    *)
(* two calls interleave.                                                   *)
(***************************************************************************)
SecondBuildIndexBegin ==
    /\ pc \in {"building", "adding"}
    /\ second = NoSecond
    /\ second' = [NoSecond EXCEPT !.pc = "building"]
    /\ UNCHANGED <<documents, embeddings, ready, pc, bi, progress, events,
                   builds, last, kwchunks, session, pending, inflight, shared>>

SecondBuildIndexAddDocument ==
    /\ second.pc = "building"
    /\ second.i < Len(Chunks)
    /\ \E resp \in EmbedReturns(DocVectors) :
          /\ documents' = build_index_step(documents, embeddings, ready,
                                           second.i, second.progress,
                                           second.events, resp).documents
          /\ second' = [second EXCEPT !.pc = "adding",
                                      !.pending = Some(resp.vec)]
    /\ UNCHANGED <<embeddings, ready, pc, bi, progress, events, builds, last,
                   kwchunks, session, pending, inflight, shared>>

SecondBuildIndexAddEmbedding ==
    /\ second.pc = "adding"
    /\ LET s == build_index_step(documents, embeddings, ready, second.i,
                                 second.progress, second.events,
                                 [raises |-> FALSE, vec |-> second.pending[1]])
       IN /\ embeddings' = s.embeddings
          /\ ready' = s.ready
          /\ second' = [pc |-> "building", i |-> s.i, progress |-> s.progress,
                        events |-> s.events, pending |-> None]
    /\ UNCHANGED <<documents, pc, bi, progress, events, builds, last, kwchunks,
                   session, pending, inflight, shared>>

\* the second call ends
SecondStepTo(s) ==
    /\ documents' = s.documents
    /\ embeddings' = s.embeddings
    /\ ready' = s.ready
    /\ second' = [pc |-> IF s.status = "raised" THEN "aborted" ELSE "done",
                  i |-> s.i, progress |-> s.progress, events |-> s.events,
                  pending |-> None]
    /\ builds' = IF s.status = "raised" THEN Append(builds, "aborted")
                 ELSE Append(builds, "ok")
    /\ UNCHANGED <<pc, bi, progress, events, last, kwchunks, session, pending,
                   inflight, shared>>

SecondBuildIndexRaise ==
    /\ second.pc = "building"
    /\ second.i < Len(Chunks)
    /\ SecondStepTo(build_index_step(documents, embeddings, ready, second.i,
                                     second.progress, second.events,
                                     EmbedRaises))

SecondBuildIndexReturn ==
    /\ second.pc = "building"
    /\ second.i >= Len(Chunks)
    /\ SecondStepTo(build_index_step(documents, embeddings, ready, second.i,
                                     second.progress, second.events,
                                     EmbedRaises))

\* an engine that several threads use at the same time
InitShared ==
    /\ documents = <<>>
    /\ embeddings = <<>>
    /\ ready = FALSE
    /\ pc = "idle"
    /\ bi = 0
    /\ progress = <<>>
    /\ events = <<>>
    /\ builds = <<>>
    /\ last = NoCall
    /\ kwchunks = <<>>
    /\ second = NoSecond
    /\ session = NoSession
    /\ pending = None
    /\ inflight = NoInflight
    /\ shared = TRUE

Next ==
    \/ ResultHandled
    \/ BuildIndexBegin
    \/ BuildIndexAddDocument
    \/ BuildIndexAddEmbedding
    \/ BuildIndexRaise
    \/ BuildIndexReturn
    \/ Retrieve
    \/ GenerateWithRag
    \/ EmbedAnswered
    \/ GenerateAnswered

Spec == Init /\ [][Next]_vars

NextStore ==
    \/ ResultHandled
    \/ StoreAdd
    \/ StoreSearch

SpecStore == Init /\ [][NextStore]_vars

NextStoreAny ==
    \/ ResultHandled
    \/ StoreAddAny
    \/ StoreSearch

SpecStoreAny == Init /\ [][NextStoreAny]_vars

NextAnalyze ==
    \/ ResultHandled
    \/ BuildIndexFirst
    \/ BuildIndexAddDocument
    \/ BuildIndexAddEmbedding
    \/ BuildIndexRaise
    \/ BuildIndexReturn
    \/ AnalyzeAnemia
    \/ AnalyzeNeutrophilAbnormality
    \/ AnalyzePlateletAbnormality
    \/ AnalyzeImmunodeficiencyRisk
    \/ AnalyzeSampleQualityRag
    \/ FullRagAnalysis
    \/ EmbedAnswered
    \/ GenerateAnswered

SpecAnalyze == Init /\ [][NextAnalyze]_vars

NextKeyword ==
    \/ ResultHandled
    \/ KeywordSearch

SpecKeyword == InitKeyword /\ [][NextKeyword]_vars

\* the two indexes side by side: the store of an engine, filled by
\* build_index, and a keyword retriever over a chunk list of its own, of
\* different chunks listed by ascending id
InitSearch ==
    /\ InitKeyword
    /\ Len(kwchunks) < MaxKwChunks
    /\ \A i \in 1..(Len(kwchunks) - 1) : kwchunks[i].id < kwchunks[i + 1].id

NextSearch ==
    \/ ResultHandled
    \/ BuildIndexFirst
    \/ BuildIndexAddDocument
    \/ BuildIndexAddEmbedding
    \/ BuildIndexRaise
    \/ BuildIndexReturn
    \/ StoreSearch
    \/ KeywordSearch
    \/ SearchRepeated

SpecSearch == InitSearch /\ [][NextSearch]_vars

NextApp ==
    \/ ResultHandled
    \/ AppBuildIndexBegin
    \/ AppBuildIndexPass
    \/ AppBuildIndexRaise
    \/ AppBuildIndexReturn
    \/ AppRebuildIndex
    \/ AppExtractCbcBegin
    \/ AppExtractCbcAnswered
    \/ AppAsk
    \/ AppAnalyzeAnemia
    \/ AppAnalyzeNeutrophil
    \/ AppAnalyzePlatelet
    \/ AppAnalyzeImmunodeficiency
    \/ AppAnalyzePolycythemia
    \/ AppFullAnalysis
    \/ AppEmbedAnswered
    \/ AppGenerateAnswered
    \/ AppKeywordSearch

SpecApp == Init /\ [][NextApp]_vars

NextOverlap ==
    \/ ResultHandled
    \/ BuildIndexFirst
    \/ BuildIndexAddDocument
    \/ BuildIndexAddEmbedding
    \/ BuildIndexRaise
    \/ BuildIndexReturn
    \/ SecondBuildIndexBegin
    \/ SecondBuildIndexAddDocument
    \/ SecondBuildIndexAddEmbedding
    \/ SecondBuildIndexRaise
    \/ SecondBuildIndexReturn

SpecOverlap == InitShared /\ [][NextOverlap]_vars

\* one thread builds and rebuilds the index while another retrieves and
\* generates on the same engine
NextThreads ==
    \/ ResultHandled
    \/ BuildIndexBegin
    \/ BuildIndexAddDocument
    \/ BuildIndexAddEmbedding
    \/ BuildIndexRaise
    \/ BuildIndexReturn
    \/ ThreadRetrieve
    \/ ThreadGenerateWithRag
    \/ EmbedAnswered
    \/ GenerateAnswered

SpecThreads == InitShared /\ [][NextThreads]_vars

(***************************************************************************)
(* Properties.                                                             *)
(***************************************************************************)
RagAnswerOf(call) == call.value[1]

\* the store holds exactly one (chunk, vector) entry per chunk of the
\* knowledge base
OneEntryPerChunk ==
    /\ Len(documents) = Len(Chunks)
    /\ Len(embeddings) = Len(Chunks)
    /\ \A i \in 1..Len(Chunks) :
          Cardinality({j \in 1..Len(documents) : documents[j] = Chunks[i]}) = 1

\* C1: while is_ready() is false, retrieve and generate_with_rag fail with
\* the index-not-built error: nothing is returned, no embedding and no
\* generation call is made, and the store and the ready flag stay as they were.
C1_NotReadyFails ==
    [][(/\ last.op = "none"
        /\ last'.op \in {"retrieve", "generate_with_rag"}
        /\ ~ready)
       => (/\ last'.outcome = "IndexNotBuilt"
           /\ last'.value = None
           /\ last'.embedCalls = 0
           /\ last'.genCalls = 0
           /\ documents' = documents
           /\ embeddings' = embeddings
           /\ ready' = ready)]_vars

\* generate_with_rag was refused on an engine whose first build aborted after
\* some chunks were already in the store
C1_Witness ==
    /\ last.op = "generate_with_rag"
    /\ last.outcome = "IndexNotBuilt"
    /\ ~ready
    /\ Len(documents) > 0

\* C2: after two successful build_index calls on one engine the store holds
\* exactly one entry per chunk, and is_ready() is true after each successful
\* call.
C2_RebuildIdempotent ==
    (pc = "idle" /\ builds \in {<<"ok">>, <<"ok", "ok">>})
        => (ready /\ OneEntryPerChunk)

\* C3: a build that aborts partway followed by a successful build_index on
\* the same engine leaves exactly one entry per chunk and is_ready() true.
C3_RebuildAfterAbort ==
    (pc = "idle" /\ builds = <<"aborted", "ok">>)
        => (ready /\ OneEntryPerChunk)

\* C4: is_ready() implies that a build_index call has run to its end and the
\* store holds an entry (chunk and vector, at one index of the two lists) for
\* every chunk; a first build that fails leaves is_ready() false.
C4_ReadyOnlyWhenIndexed ==
    /\ ready =>
          /\ \E b \in 1..Len(builds) : builds[b] = "ok"
          /\ Len(embeddings) <= Len(documents)
          /\ \A i \in 1..Len(Chunks) :
                \E j \in 1..Len(embeddings) : documents[j] = Chunks[i]
    /\ (builds = <<"aborted">>) => ~ready
    /\ (builds = <<>>) => ~ready

\* a first build aborted after inserting some chunks, a second one succeeded
C4_Witness ==
    /\ builds = <<"aborted", "ok">>
    /\ ready
    /\ Len(documents) > Len(Chunks)

\* C5: a successful generate_with_rag(query, top_k) with top_k >= 0 returns
\* sources of the same length n <= top_k as retrieved_chunks, numbered 1..n in
\* order, each carrying the title, section and score of the retrieved chunk at
\* the same rank, and echoes the query.
C5_SourceAttribution ==
    (last.op = "generate_with_rag" /\ last.outcome = "ok" /\ last.args.top_k >= 0)
        => LET a == RagAnswerOf(last)
               n == Len(a.retrieved_chunks)
           IN /\ Len(a.sources) = n
              /\ n <= last.args.top_k
              /\ \A i \in 1..n :
                    /\ a.sources[i].index = i
                    /\ a.sources[i].title = a.retrieved_chunks[i].title
                    /\ a.sources[i].section = a.retrieved_chunks[i].section
                    /\ a.sources[i].score = a.retrieved_chunks[i].score
              /\ a.query = last.args.query

\* an answer with two sources of different relevance, the second chunk of the
\* knowledge base ranked first
C5_Witness ==
    /\ last.op = "generate_with_rag"
    /\ last.outcome = "ok"
    /\ last.args.top_k = 2
    /\ Len(RagAnswerOf(last).sources) = 2
    /\ RagAnswerOf(last).sources[1].score > RagAnswerOf(last).sources[2].score
    /\ RagAnswerOf(last).retrieved_chunks[1].id = 2

\* C6: analyze_anemia calls generate_with_rag (top_k = 5; one embedding and
\* one generation call when the call succeeds) exactly when hemoglobin is
\* present and strictly below 13.5 for sex "M", 12.0 for any other sex;
\* otherwise it returns None and calls no provider, ready or not.
C6_AnemiaGate ==
    (last.op = "analyze_anemia")
        => LET hgb == last.args.cbc.hgb
               bound == IF last.args.sex = "M" THEN 135 ELSE 120
               below == hgb # None /\ hgb[1] < bound
           IN /\ below =>
                    /\ last.rag # None
                    /\ last.rag[1].top_k = 5
                    /\ last.genCalls <= 1 /\ last.embedCalls <= 1
                    /\ ready => last.embedCalls = 1
                    /\ last.outcome = "ok" =>
                          /\ last.value # None
                          /\ last.embedCalls = 1
                          /\ last.genCalls = 1
              /\ ~below =>
                    /\ last.outcome = "ok"
                    /\ last.value = None
                    /\ last.rag = None
                    /\ last.embedCalls = 0
                    /\ last.genCalls = 0

\* hemoglobin exactly at the lower bound for sex "F" on a ready engine
C6_Witness ==
    /\ last.op = "analyze_anemia"
    /\ last.args.cbc.hgb = Some(120)
    /\ last.args.sex = "F"
    /\ ready
    /\ last.value = None
    /\ last.genCalls = 0

\* a lab value is absent or within [lo, hi]
Within(v, lo, hi) == v = None \/ (lo <= v[1] /\ v[1] <= hi)

\* no lab value crosses a reference bound (hemoglobin by sex, white cells,
\* absolute neutrophils given or derived, platelets, lymphocytes, MCV)
NoThresholdCrossed(cbc, sex) ==
    /\ Within(cbc.hgb, IF sex = "M" THEN 135 ELSE 120, IF sex = "M" THEN 175 ELSE 155)
    /\ Within(cbc.wbc, 45, 110)
    /\ Within(cbc.neut_abs, 18, 77)
    /\ (cbc.neut_abs = None /\ cbc.wbc # None /\ cbc.neut_pct # None)
          => (18 * 1000 <= cbc.wbc[1] * cbc.neut_pct[1]
              /\ cbc.wbc[1] * cbc.neut_pct[1] <= 77 * 1000)
    /\ Within(cbc.plt, 1500, 4000)
    /\ Within(cbc.lymph_abs, 10, 48)
    /\ (cbc.lymph_abs = None /\ cbc.wbc # None /\ cbc.lymph_pct # None)
          => (10 * 1000 <= cbc.wbc[1] * cbc.lymph_pct[1]
              /\ cbc.wbc[1] * cbc.lymph_pct[1] <= 48 * 1000)
    /\ Within(cbc.mcv, 800, 1000)

\* C7: analyze_anemia, analyze_neutrophil_abnormality,
\* analyze_platelet_abnormality and analyze_immunodeficiency_risk return None
\* and make no retrieval and no generation call when no lab value they inspect
\* crosses a threshold (stated here for a ready engine, where a call that is
\* made reaches the providers).
C7_NoFindingWithoutThreshold ==
    (/\ ready
     /\ last.op \in {"analyze_anemia", "analyze_neutrophil_abnormality",
                     "analyze_platelet_abnormality",
                     "analyze_immunodeficiency_risk"}
     /\ NoThresholdCrossed(last.args.cbc,
                           IF "sex" \in DOMAIN last.args THEN last.args.sex ELSE "F"))
        => (/\ last.outcome = "ok"
            /\ last.value = None
            /\ last.rag = None
            /\ last.embedCalls = 0
            /\ last.genCalls = 0)

\* the lab value and the bound behind each entry of the abnormality list
FindingIsAbnormal(f, cbc, sex) ==
    LET Low(v, lo) == TruthyNum(v) /\ v[1] < lo /\ f.value = v[1]
        High(v, hi) == TruthyNum(v) /\ v[1] > hi /\ f.value = v[1]
    IN CASE f.finding = "Anemia" -> Low(cbc.hgb, IF sex = "M" THEN 135 ELSE 120)
         [] f.finding = "Erythrocytosis" ->
                High(cbc.hgb, IF sex = "M" THEN 175 ELSE 155)
         [] f.finding = "Leukocytosis" -> High(cbc.wbc, 110)
         [] f.finding = "Leukopenia" -> Low(cbc.wbc, 45)
         [] f.finding = "Neutrophilia" -> High(cbc.neut_abs, 77)
         [] f.finding = "Neutropenia" -> Low(cbc.neut_abs, 18)
         [] f.finding = "Thrombocytopenia" -> Low(cbc.plt, 1500)
         [] f.finding = "Thrombocytosis" -> High(cbc.plt, 4000)
         [] f.finding = "Lymphopenia" -> Low(cbc.lymph_abs, 10)
         [] f.finding = "Lymphocytosis" -> High(cbc.lymph_abs, 48)
         [] f.finding = "Microcytosis" -> Low(cbc.mcv, 800)
         [] f.finding = "Macrocytosis" -> High(cbc.mcv, 1000)
         [] OTHER -> FALSE

\* C8: full_rag_analysis always makes exactly one generate_with_rag call with
\* top_k = 6 and never returns None; on a ready engine it returns a RagAnswer
\* unless a provider call raises.  Every entry of its abnormality list names a
\* lab value that is present, non-zero and outside its bounds, and the query
\* says "None identified" exactly when the list is empty.
C8_FullAnalysisAlwaysFires ==
    (last.op = "full_rag_analysis")
        => /\ last.rag # None
           /\ last.rag[1].top_k = 6
           /\ ~(last.outcome = "ok" /\ last.value = None)
           /\ ready =>
                 \/ last.outcome = "ok" /\ last.embedCalls = 1 /\ last.genCalls = 1
                 \/ last.outcome = "EmbedError" /\ last.genCalls = 0
                 \/ last.outcome = "GenerationError" /\ last.genCalls = 1
           /\ LET abnormals == last.rag[1].additional_context.abnormalities
                  said == last.rag[1].query.abnormalities
              IN /\ \A i \in 1..Len(abnormals) :
                       FindingIsAbnormal(abnormals[i], last.args.cbc, last.args.sex)
                 /\ (abnormals = <<>>) <=> (said[1] = "None identified")
                 /\ (abnormals # <<>>) => said = <<"joined", abnormals>>

\* every lab value absent, engine ready, providers working: an answer comes back
C8_Witness ==
    /\ last.op = "full_rag_analysis"
    /\ last.args.cbc = NoCbc
    /\ ready
    /\ last.outcome = "ok"
    /\ last.value # None
    /\ last.rag[1].query.abnormalities[1] = "None identified"

\* C9: with a section_filter given (any string), every result of search has
\* that section and there are at most as many results as stored chunks of that
\* section.
C9_SectionFilter ==
    (last.op = "search" /\ last.args.section_filter # None)
        => LET sf == last.args.section_filter[1]
           IN /\ \A i \in 1..Len(last.value) : last.value[i].section = sf
              /\ Len(last.value)
                    <= Cardinality({j \in 1..Len(documents) :
                                       documents[j].section = sf})

IsPrefix(s, t) == Len(s) <= Len(t) /\ \A i \in 1..Len(s) : s[i] = t[i]

\* C10: for k >= 0, search(top_k = k) is a prefix of search(top_k = k + 1) on
\* the same store, query vector and filter, and the latter has exactly one
\* more entry whenever more than k entries pass the filter.
C10_TopKMonotone ==
    (last.op = "search" /\ last.args.top_k >= 0)
        => LET k == last.args.top_k
               q == last.args.query_embedding
               sf == last.args.section_filter
               more == store_search(documents, embeddings, q, k + 1, sf)
               passing == Len(ScoredFrom(documents, embeddings, q, sf, 1))
           IN /\ IsPrefix(last.value, more)
              /\ passing > k => Len(more) = Len(last.value) + 1
              /\ passing <= k => more = last.value

\* a search with top_k = 1 over three entries of different similarity
C10_Witness ==
    /\ last.op = "search"
    /\ last.args.top_k = 1
    /\ Len(documents) = 3
    /\ Len(last.value) = 1
    /\ last.args.section_filter = None
    /\ LET all == store_search(documents, embeddings,
                               last.args.query_embedding, 3, None)
       IN Len(all) = 3 /\ all[1].score > all[2].score /\ all[2].score > all[3].score

\* the stored entries that search does not skip under a filter: every entry
\* when the filter is None or the empty string, else those of that section
Passing(section_filter) ==
    {j \in 1..Len(documents) :
        ~TruthyStr(section_filter) \/ documents[j].section = section_filter[1]}

\* C11: for top_k >= 0 search returns exactly min(top_k, M) results, M being
\* the number of stored entries that pass the section filter; a top_k above
\* the store size returns every passing entry and an empty store returns the
\* empty list.
C11_ResultCount ==
    (last.op = "search" /\ last.args.top_k >= 0)
        => LET M == Cardinality(Passing(last.args.section_filter))
           IN /\ last.outcome = "ok"
              /\ Len(last.value) = Min(last.args.top_k, M)
              /\ last.args.top_k > Len(documents) => Len(last.value) = M
              /\ documents = <<>> => last.value = <<>>

\* a search with top_k above the size of a two-entry store, of which the
\* filter passes one
C11_Witness ==
    /\ last.op = "search"
    /\ Len(documents) = 2
    /\ last.args.top_k = 3
    /\ last.args.section_filter = Some("Anemia")
    /\ Cardinality(Passing(last.args.section_filter)) = 1
    /\ Len(last.value) = 1

\* entry i of the store comes before entry j in the ranking for query q:
\* strictly more similar, or equally similar and stored earlier
RanksBefore(q, i, j) ==
    LET si == cosine_similarity(q, embeddings[i])
        sj == cosine_similarity(q, embeddings[j])
    IN ScoreGT(si, sj) \/ (ScoreEQ(si, sj) /\ i < j)

\* C12: the results of search are in non-increasing order of cosine similarity
\* to the query vector, entries of equal similarity in insertion order, and
\* no entry left out ranks before a returned one.
C12_RankedOrder ==
    (last.op = "search")
        => LET q == last.args.query_embedding
               sf == last.args.section_filter
               top == TopScored(documents, embeddings, q, last.args.top_k, sf)
               chosen == {top[i].idx : i \in 1..Len(top)}
           IN /\ Len(last.value) = Len(top)
              /\ \A i \in 1..Len(top) :
                    last.value[i]
                       = Annotate(documents[top[i].idx],
                                  cosine_similarity(q, embeddings[top[i].idx]))
              /\ \A i, j \in 1..Len(top) :
                    i < j => /\ RanksBefore(q, top[i].idx, top[j].idx)
                             /\ last.value[i].score >= last.value[j].score
              /\ \A i \in chosen, j \in Passing(sf) \ chosen : RanksBefore(q, i, j)

\* three results where the most similar entry was stored second and the two
\* equally similar ones follow in insertion order
C12_Witness ==
    /\ last.op = "search"
    /\ Len(documents) = 3
    /\ Len(last.value) = 3
    /\ documents[1].id # documents[3].id
    /\ LET top == TopScored(documents, embeddings, last.args.query_embedding,
                            last.args.top_k, last.args.section_filter)
       IN /\ <<top[1].idx, top[2].idx, top[3].idx>> = <<2, 1, 3>>
          /\ last.value[1].score > last.value[2].score
          /\ last.value[2].score = last.value[3].score
          /\ last.value[2].score > 0

AllZero(v) == \A i \in 1..Len(v) : v[i] = 0

\* the stored chunks that search does not skip, in insertion order
PassingChunks(section_filter) ==
    SelectSeq(documents,
              LAMBDA d : ~TruthyStr(section_filter) \/ d.section = section_filter[1])

\* C13: search never fails on a division by zero; a result whose stored vector
\* or whose query vector is all-zero has score exactly 0; with an all-zero
\* query and top_k >= 0 the results are the first min(top_k, N) entries that
\* pass the filter, in insertion order, each with score 0.
C13_ZeroMagnitude ==
    (last.op = "search")
        => /\ last.outcome = "ok"
           /\ LET q == last.args.query_embedding
                  k == last.args.top_k
                  sf == last.args.section_filter
                  top == TopScored(documents, embeddings, q, k, sf)
                  first == PassingChunks(sf)
              IN /\ \A i \in 1..Len(last.value) :
                       (AllZero(q) \/ AllZero(embeddings[top[i].idx]))
                           => last.value[i].score = 0
                 /\ (AllZero(q) /\ k >= 0)
                       => last.value
                            = [i \in 1..Min(k, Len(first)) |->
                                 [id |-> first[i].id, section |-> first[i].section,
                                  title |-> first[i].title, text |-> first[i].text,
                                  score |-> 0]]

\* an all-zero query against three stored vectors, one of them all-zero and
\* two not, with top_k = 2
C13_Witness ==
    /\ last.op = "search"
    /\ AllZero(last.args.query_embedding)
    /\ last.args.top_k = 2
    /\ last.args.section_filter = None
    /\ Len(embeddings) = 3
    /\ ~AllZero(embeddings[1]) /\ AllZero(embeddings[2]) /\ ~AllZero(embeddings[3])
    /\ Len(last.value) = 2
    /\ last.value[1].id = documents[1].id /\ last.value[2].id = documents[2].id
    /\ last.value[1].score = 0 /\ last.value[2].score = 0

\* C14: after any sequence of add calls all stored vectors have one length
\* and the store holds as many documents as embeddings.
C14_UniformDimension ==
    /\ \A i, j \in 1..Len(embeddings) : Len(embeddings[i]) = Len(embeddings[j])
    /\ Len(documents) = Len(embeddings)

\* what C17 says of one step, a generate_with_rag call that got as far as the
\* generation provider: the provider was called exactly once; the store and
\* the ready flag are as they were; the call either ends with the generation
\* error and no answer, or returns an answer that is a text the provider
\* returned (a call that raised returned none)
C17_Step ==
    (last'.op = "generate_with_rag" /\ last'.genCalls > 0)
        => /\ last'.genCalls = 1
           /\ UNCHANGED <<documents, embeddings, ready>>
           /\ \/ /\ last'.outcome = "GenerationError"
                 /\ last'.value = None
              \/ /\ last'.outcome = "ok"
                 /\ \E gresp \in GenReturns :
                       RagAnswerOf(last').answer = gresp.text

\* C17: when the generation call raises inside generate_with_rag the error
\* reaches the caller: no RagAnswer, no substituted answer, no second
\* generation call, and the store and the ready flag are unchanged.
C17_GenerationErrorPropagates == [][C17_Step]_vars

\* generate_with_rag on a built engine ended with the generation error
C17_Witness ==
    /\ last.op = "generate_with_rag"
    /\ last.outcome = "GenerationError"
    /\ ready
    /\ Len(documents) = Len(Chunks)
    /\ last.embedCalls = 1
    /\ last.genCalls = 1
    /\ last.value = None

\* C18: generate_with_rag never returns a RagAnswer whose answer is the empty
\* text; an empty generation response ends the call with an error.
C18_EmptyAnswerRejected ==
    (last.op = "generate_with_rag" /\ last.outcome = "ok")
        => RagAnswerOf(last).answer # ""

\* the record of a build_index call that has completed n loop iterations
RECURSIVE IterationsDone(_)
IterationsDone(n) ==
    IF n = 0 THEN <<>>
    ELSE IterationsDone(n - 1)
         \o <<EmbedEvent(n), AddEvent(n), ProgressEvent(n, Len(Chunks))>>

\* C19: in one build_index over N chunks the callback is invoked with (1, N),
\* (2, N), ..., (N, N) in this order, the i-th invocation after chunk i was
\* embedded and added and before chunk i + 1 is embedded, all of them before
\* the ready flag is assigned, exactly N times in a call that returns, and the
\* call returns N.
C19_ProgressCallbacks ==
    LET N == Len(Chunks)
    IN /\ pc \in {"building", "adding"}
            => /\ progress = [i \in 1..bi |-> <<i, N>>]
               /\ events = IterationsDone(bi)
       /\ (last.op = "build_index" /\ last.outcome = "ok")
            => /\ progress = [i \in 1..N |-> <<i, N>>]
               /\ events = Append(IterationsDone(N), ReadyEvent)
               /\ last.value = Some(N)

\* a build_index call over two chunks has returned
C19_Witness ==
    /\ last.op = "build_index"
    /\ last.outcome = "ok"
    /\ Len(Chunks) >= 2
    /\ Len(progress) = Len(Chunks)
    /\ progress[2] = <<2, Len(Chunks)>>
    /\ events[Len(events)] = ReadyEvent
    /\ ready

\* the embedding requests and store insertions of the current call, in order
EmbedsAndAdds == SelectSeq(events, LAMBDA e : e[1] \in {"embed", "add"})

RECURSIVE EmbedThenAdd(_)
EmbedThenAdd(n) ==
    IF n = 0 THEN <<>> ELSE EmbedThenAdd(n - 1) \o <<EmbedEvent(n), AddEvent(n)>>

\* C20: in a build_index on a freshly constructed engine the chunks are
\* embedded one at a time in knowledge-base order, each in document mode, and
\* each is inserted before the next is embedded, so that after the build the
\* i-th store entry is the i-th chunk.
C20_BuildOrder ==
    /\ (pc = "building" /\ builds = <<>>)
          => /\ EmbedsAndAdds = EmbedThenAdd(bi)
             /\ documents = [i \in 1..bi |-> Chunks[i]]
             /\ Len(embeddings) = bi
    /\ (pc = "adding" /\ builds = <<>>)
          => /\ EmbedsAndAdds = EmbedThenAdd(bi)
             /\ documents = [i \in 1..(bi + 1) |-> Chunks[i]]
             /\ Len(embeddings) = bi
    /\ (pc = "idle" /\ builds = <<"ok">>)
          => /\ EmbedsAndAdds = EmbedThenAdd(Len(Chunks))
             /\ documents = Chunks
             /\ Len(embeddings) = Len(Chunks)

\* the first build of an engine has returned, with two different vectors
\* stored
C20_Witness ==
    /\ pc = "idle"
    /\ builds = <<"ok">>
    /\ last.op = "build_index"
    /\ Len(documents) = Len(Chunks)
    /\ Len(Chunks) >= 2
    /\ embeddings[1] # embeddings[2]
    /\ documents[2] = Chunks[2]

\* the lowercase word set of chunk i of the retriever, and what it shares
\* with the query
Vocabulary(i) == Tokens(ChunkText(kwchunks[i]))
Shared(query, i) == Tokens(LowerStr(query)) \cap Vocabulary(i)

\* |shared| / sqrt(|vocabulary|) of chunk i is above that of chunk j, or the
\* two are equal and i comes first (squares compared, an empty vocabulary
\* scored as 0)
KwRanksBefore(query, i, j) ==
    LET oi == Cardinality(Shared(query, i))
        oj == Cardinality(Shared(query, j))
        vi == Max(Cardinality(Vocabulary(i)), 1)
        vj == Max(Cardinality(Vocabulary(j)), 1)
    IN \/ oi * oi * vj > oj * oj * vi
       \/ (oi * oi * vj = oj * oj * vi /\ i < j)

\* the chunk indices in the order that KwRanksBefore gives
KwStatedOrder(query) ==
    LET n == Len(kwchunks)
        Before(i) == Cardinality({j \in 1..n : KwRanksBefore(query, j, i)})
    IN [p \in 1..n |-> CHOOSE i \in 1..n : Before(i) = p - 1]

\* C15: KeywordRetriever.search returns the chunks in non-increasing order of
\* |query_tokens & chunk_tokens| / sqrt(|chunk_tokens|), chunks of equal score
\* in their original order, cut to the first top_k, each a copy of its chunk
\* carrying its rounded score and the method tag "keyword".
C15_KeywordRanking ==
    (last.op = "keyword_search")
        => LET query == last.args.query
               order == PySlice(KwStatedOrder(query), last.args.top_k)
           IN /\ Len(last.value) = Len(order)
              /\ \A i \in 1..Len(order) :
                    LET c == kwchunks[order[i]]
                        r == last.value[i]
                    IN /\ <<r.id, r.section, r.title, r.text, r.keywords>>
                            = <<c.id, c.section, c.title, c.text, c.keywords>>
                       /\ r.method = "keyword"
                       /\ r.score
                            = KwRound4(KeywordRetriever_score(
                                           c, Tokens(LowerStr(query))))

\* C16: a chunk with an empty vocabulary scores exactly 0, a chunk sharing no
\* token with the query scores exactly 0, no score is negative, and a chunk
\* sharing at least one token scores strictly above every chunk sharing none.
C16_KeywordScores ==
    (last.op = "keyword_search")
        => LET query == last.args.query
               n == Len(kwchunks)
               score(i) == KeywordRetriever_score(kwchunks[i],
                                                  Tokens(LowerStr(query)))
               top == KwTopScored(kwchunks, query, last.args.top_k)
           IN /\ \A i \in 1..n :
                    /\ Vocabulary(i) = {} => score(i) = [m |-> <<>>, e |-> 0]
                    /\ Shared(query, i) = {} => score(i) = [m |-> <<>>, e |-> 0]
                    /\ Shared(query, i) # {} => score(i).m # <<>>
              /\ \A i, j \in 1..n :
                    (Shared(query, i) # {} /\ Shared(query, j) = {})
                        => KwScoreGT(score(i), score(j))
              /\ \A i \in 1..Len(last.value) :
                    /\ last.value[i].score >= 0
                    /\ Shared(query, top[i].idx) = {} => last.value[i].score = 0
                    /\ Shared(query, top[i].idx) # {} => last.value[i].score > 0
              /\ \A i, j \in 1..Len(last.value) :
                    (Shared(query, top[i].idx) # {} /\ Shared(query, top[j].idx) = {})
                        => i < j

\* three results: a chunk sharing a token with the query, stored last, comes
\* before a chunk with an empty vocabulary and a chunk sharing nothing
C16_Witness ==
    /\ last.op = "keyword_search"
    /\ Len(kwchunks) = 3
    /\ Len(last.value) = 3
    /\ Vocabulary(1) = {}
    /\ Vocabulary(2) # {} /\ Shared(last.args.query, 2) = {}
    /\ Shared(last.args.query, 3) # {}
    /\ last.value[1].id = kwchunks[3].id
    /\ last.value[1].score > 0
    /\ last.value[2].score = 0 /\ last.value[3].score = 0

\* the lab values with every 0 replaced by an absent value
ZeroAsAbsent(cbc) ==
    [f \in DOMAIN cbc |-> IF cbc[f] = Some(0) THEN None ELSE cbc[f]]

\* the synthesizer of a completed call applied to other lab values on the
\* same engine (only the request it issues is looked at)
SameCallOn(call, cbc) ==
    CASE call.op = "analyze_anemia" ->
            analyze_anemia(ready, documents, embeddings, cbc, call.args.sex,
                           EmbedRaises, GenRaises)
      [] call.op = "analyze_neutrophil_abnormality" ->
            analyze_neutrophil_abnormality(ready, documents, embeddings, cbc,
                                           EmbedRaises, GenRaises)
      [] call.op = "analyze_platelet_abnormality" ->
            analyze_platelet_abnormality(ready, documents, embeddings, cbc,
                                         EmbedRaises, GenRaises)
      [] call.op = "full_rag_analysis" ->
            full_rag_analysis(ready, documents, embeddings, cbc, call.args.sex,
                              call.args.age, EmbedRaises, GenRaises)

\* whether a synthesizer call fired and the condition it asked about
Reported(r) ==
    IF r.rag = None THEN <<"no finding">>
    ELSE IF r.rag[1].query.ask = "full"
         THEN <<"full", r.rag[1].additional_context.abnormalities>>
         ELSE <<r.rag[1].query.ask>>

\* C21: a lab value of 0 is treated as an absent one: analyze_anemia,
\* analyze_neutrophil_abnormality, analyze_platelet_abnormality and
\* full_rag_analysis fire, and report the same condition, on the given lab
\* values exactly as they do with every 0 replaced by an absent value.
C21_ZeroIsAbsent ==
    (/\ ready
     /\ last.op \in {"analyze_anemia", "analyze_neutrophil_abnormality",
                     "analyze_platelet_abnormality", "full_rag_analysis"})
        => Reported(last) = Reported(SameCallOn(last, ZeroAsAbsent(last.args.cbc)))

\* a call that returned the no-finding sentinel without touching a provider
IsNoFinding(call) ==
    /\ call.outcome = "ok"
    /\ call.value = None
    /\ call.rag = None
    /\ call.embedCalls = 0
    /\ call.genCalls = 0

\* a call that issued exactly one generate_with_rag request, about the given
\* condition with the given top_k
Fired(call, ask, top_k) ==
    /\ call.rag # None
    /\ call.rag[1].query.ask = ask
    /\ call.rag[1].top_k = top_k
    /\ call.embedCalls <= 1 /\ call.genCalls <= 1
    /\ call.outcome = "ok" => (call.value # None /\ call.embedCalls = 1
                               /\ call.genCalls = 1)

\* C22: analyze_neutrophil_abnormality takes ANC from neut_abs when that is
\* present, else from wbc * neut_pct / 100 when both are present and
\* non-zero, else returns no finding; it asks about neutrophilia iff
\* ANC > 7.7, about neutropenia iff ANC < 1.8, and for 1.8 <= ANC <= 7.7
\* returns the no-finding sentinel with no provider call.  (Lab values are
\* in tenths; anc1000 is a thousand times the ANC in tenths.)
C22_NeutrophilGate ==
    (last.op = "analyze_neutrophil_abnormality")
        => LET cbc == last.args.cbc
               given == cbc.neut_abs # None
               derived == /\ ~given
                          /\ cbc.wbc # None /\ cbc.wbc[1] # 0
                          /\ cbc.neut_pct # None /\ cbc.neut_pct[1] # 0
               anc1000 == IF given THEN 1000 * cbc.neut_abs[1]
                          ELSE cbc.wbc[1] * cbc.neut_pct[1]
               high == (given \/ derived) /\ anc1000 > 77 * 1000
               low == (given \/ derived) /\ anc1000 < 18 * 1000
           IN /\ ~(high /\ low)
              /\ high => Fired(last, "neutrophilia", 4)
              /\ low => Fired(last, "neutropenia", 4)
              /\ (~high /\ ~low) => IsNoFinding(last)

\* C23: analyze_platelet_abnormality asks about thrombocytopenia iff plt is
\* present and below 150, about thrombocytosis iff plt is above 400, and
\* returns the no-finding sentinel with no provider call when plt is absent
\* or 150 <= plt <= 400; when it fires it makes one generate_with_rag call
\* with top_k = 4.
C23_PlateletGate ==
    (last.op = "analyze_platelet_abnormality")
        => LET plt == last.args.cbc.plt
               low == plt # None /\ plt[1] < 1500
               high == plt # None /\ plt[1] > 4000
           IN /\ ~(high /\ low)
              /\ low => Fired(last, "thrombocytopenia", 4)
              /\ high => Fired(last, "thrombocytosis", 4)
              /\ (~high /\ ~low) => IsNoFinding(last)

\* platelets exactly 150 on a ready engine: no finding
C23_Witness ==
    /\ last.op = "analyze_platelet_abnormality"
    /\ ready
    /\ last.args.cbc.plt = Some(1500)
    /\ IsNoFinding(last)

\* what C24 says of one step that completes a search, and of one that
\* completes the repetition of a search
C24_Step ==
    /\ (last = NoCall /\ last'.op = "search")
          => /\ UNCHANGED <<documents, embeddings>>
             /\ \A i \in 1..Len(documents') : "score" \notin DOMAIN documents'[i]
    /\ (last = NoCall /\ last'.op = "keyword_search")
          => /\ UNCHANGED kwchunks
             /\ \A i \in 1..Len(kwchunks') :
                   DOMAIN kwchunks'[i] \cap {"score", "method"} = {}
    /\ last'.op \in {"search_repeated", "keyword_search_repeated"}
          => /\ UNCHANGED <<documents, embeddings, kwchunks>>
             /\ last'.value[1] = last.value
             /\ last'.value[2] = last'.value[1]

\* C24: InMemoryVectorStore.search and KeywordRetriever.search leave the
\* stored documents, embeddings and chunk list as they were; the score and
\* method annotations exist only on the returned copies, and the same search
\* made again on the store as the first left it returns the same result.
C24_SearchReadOnly == [][C24_Step]_vars

\* a store search that returned two annotated results was made again and
\* returned the same two; the two stored chunks carry no score
C24_Witness ==
    /\ last.op = "search_repeated"
    /\ Len(documents) = 2
    /\ Len(last.value[1]) = 2
    /\ last.value[2] = last.value[1]
    /\ "score" \in DOMAIN last.value[2][1]
    /\ last.value[2][1].score > 0
    /\ \A i \in 1..2 : "score" \notin DOMAIN documents[i]

\* C25: a generate_with_rag call that succeeds has made exactly one embedding
\* call, in query mode, then one store search, then exactly one generation
\* call, in this order; when retrieval fails (index not ready, or the query
\* embedding raises) the generation provider is not called.
C25_CallOrder ==
    (last.op = "generate_with_rag")
        => /\ last.outcome = "ok"
                => /\ last.trace = <<EmbedQueryCall, SearchCall, GenerateCall>>
                   /\ last.embedCalls = 1
                   /\ last.genCalls = 1
           /\ last.outcome = "IndexNotBuilt"
                => /\ last.trace = <<>>
                   /\ last.embedCalls = 0 /\ last.genCalls = 0
           /\ last.outcome = "EmbedError"
                => /\ last.trace = <<EmbedQueryCall>>
                   /\ last.embedCalls = 1 /\ last.genCalls = 0
           /\ last.outcome = "GenerationError"
                => last.trace = <<EmbedQueryCall, SearchCall, GenerateCall>>
           /\ last.outcome \in {"ok", "IndexNotBuilt", "EmbedError", "GenerationError"}
           /\ ~ready => last.outcome = "IndexNotBuilt"

\* generate_with_rag returned an answer with sources on a built engine
C25_Witness ==
    /\ last.op = "generate_with_rag"
    /\ last.outcome = "ok"
    /\ ready
    /\ Len(RagAnswerOf(last).sources) >= 1
    /\ Len(last.trace) = 3
    /\ last.trace[1] = EmbedQueryCall

\* C26: when a second build_index call starts on an engine while the first is
\* still in its loop, the store is not corrupted: once both calls have
\* returned it holds exactly one entry per chunk, in source-document order.
C26_OverlapSafe ==
    (/\ pc = "idle"
     /\ second.pc = "done"
     /\ builds = <<"ok", "ok">>)
        => /\ OneEntryPerChunk
           /\ \A i \in 1..Len(Chunks) : documents[i] = Chunks[i]

\* C27: is_ready() is false from the start of every build_index call until
\* that call completes successfully, so retrieve returns results only when
\* the most recent build_index call ran to its end: not while a (re)build is
\* in progress and not after one aborted partway.
C27_ReadyOnlyAfterBuild ==
    /\ pc \in {"building", "adding"} => ~ready
    /\ (builds # <<>> /\ builds[Len(builds)] = "aborted") => ~ready
    /\ (last.op = "retrieve" /\ last.outcome = "ok")
          => (builds # <<>> /\ builds[Len(builds)] = "ok")

\* what C28 says of one step of the app: a request that a build or an
\* engine call sends for the key typed in goes out under that key, and a
\* build that sets the flag for its key changes the flag read under no
\* other key
C28_Step ==
    /\ (inflight.op = "app_build_index" /\ bi' # bi)
          => session.configured = Some(inflight.args.api_key)
    /\ (inflight.stage \in {"embedding", "generating"} /\ inflight' # inflight)
          => session.configured = Some(inflight.args.api_key)
    /\ (last' # last /\ last'.op = "app_build_index" /\ last'.outcome = "ok")
          => \A other \in ApiKeys \ {<<>>, last'.args.api_key} :
                 (CacheKey(other) \in session'.indexed)
                    = (CacheKey(other) \in session.indexed)

\* C28: a request made under API key B never works on an engine constructed
\* with a different key A: the engine get_rag_engine returns for B sends its
\* requests under B, and the flag recorded for A is not read as set for B.
C28_EngineMatchesKey == [][C28_Step]_vars

\* what C29 says of one step of the app
C29_Step ==
    /\ \A p \in session'.indexed :
          /\ p \in DOMAIN session'.rag
          /\ session'.rag[p].ready
    /\ (last' # last /\ last'.op = "app_rebuild_index")
          => LET ck == CacheKey(last'.args.api_key)
             IN /\ ck \in session.indexed
                /\ ck \notin session'.indexed
                /\ ck \notin DOMAIN session'.rag
    /\ (inflight = NoInflight /\ inflight'.op = "app_build_index")
          => LET ck == CacheKey(inflight'.args.api_key)
             IN /\ ck \notin session.indexed
                /\ ck \in DOMAIN session'.rag
                /\ ck \notin DOMAIN session.rag
                      => /\ session'.rag[ck].documents = <<>>
                         /\ session'.rag[ck].embeddings = <<>>
                         /\ ~session'.rag[ck].ready

\* C29: in every state of the app, a build under way included, a prefix
\* whose flag is set has a cached engine whose is_ready() is true; "Rebuild
\* Index" removes the flag and the cached engine together, and a build begun
\* while no engine is cached for the prefix runs on a new engine with an
\* empty store.
C29_FlagImpliesReadyEngine == [][C29_Step]_vars

\* an index was built under one key, rebuilt and a new build has embedded
\* its first chunk on a fresh engine, while the index built under a key
\* with another prefix stays flagged, its engine cached and ready
C29_Witness ==
    /\ inflight.op = "app_build_index"
    /\ inflight.args.api_key = KeyA
    /\ bi = 1
    /\ session.rag[CacheKey(KeyA)].documents = <<Chunks[1]>>
    /\ ~session.rag[CacheKey(KeyA)].ready
    /\ CacheKey(KeyA) \notin session.indexed
    /\ CacheKey(KeyC) \in session.indexed
    /\ session.rag[CacheKey(KeyC)].ready
    /\ Len(session.rag[CacheKey(KeyC)].documents) = Len(Chunks)

\* C30: KeywordRetriever.search works right after construction, with no index
\* build and no provider call: for top_k >= 0 it returns exactly
\* min(top_k, N) results, chunks that score 0 included, so that for a query
\* sharing no token with any chunk the results are the first min(top_k, N)
\* chunks in their original order, each with score 0.
C30_KeywordNoBuild ==
    (last.op = "keyword_search" /\ last.args.top_k >= 0)
        => LET query == last.args.query
               n == Len(kwchunks)
               k == Min(last.args.top_k, n)
           IN /\ last.outcome = "ok"
              /\ Len(last.value) = k
              /\ last.embedCalls = 0 /\ last.genCalls = 0 /\ last.trace = <<>>
              /\ ~ready /\ builds = <<>> /\ documents = <<>>
              /\ inflight = NoInflight /\ session.configured = None
              /\ (\A i \in 1..n : Shared(query, i) = {})
                    => \A i \in 1..k :
                          /\ last.value[i].id = kwchunks[i].id
                          /\ last.value[i].text = kwchunks[i].text
                          /\ last.value[i].score = 0
                          /\ last.value[i].method = "keyword"

\* a query with a token that no chunk of a three-chunk retriever holds,
\* searched with top_k = 2: the first two chunks come back with score 0
C30_Witness ==
    /\ last.op = "keyword_search"
    /\ last.args.top_k = 2
    /\ Tokens(LowerStr(last.args.query)) # {}
    /\ Len(kwchunks) = 3
    /\ kwchunks[1].id # kwchunks[2].id
    /\ \A i \in 1..3 : Shared(last.args.query, i) = {}
    /\ Len(last.value) = 2
    /\ last.value[1].id = kwchunks[1].id
    /\ last.value[2].id = kwchunks[2].id
    /\ last.value[1].score = 0

====
